---- MODULE Spec2Model ----
(***************************************************************************)
(* KubePulse agent: the event bus (internal/event: Bus), the module        *)
(* lifecycle and consumer loop (internal/probes/tcp: Module), the runtime  *)
(* start-up and shutdown sequence (internal/agent: Runtime.Run), the event *)
(* pool (internal/event: Acquire, Release) and the metadata cache          *)
(* (internal/metadata: Cache), modelled as interleaved goroutines.  Every  *)
(* atomic step of the Go code that another goroutine can observe is one    *)
(* action.                                                                 *)
(***************************************************************************)
EXTENDS Integers, Sequences, FiniteSets, TLC

\* ------------------------------------------------------------------ bounds
MaxBuf == 2        \* largest per-subscriber buffer size tried
MaxPub == 2        \* Publish calls in one behaviour, all publishers together
MaxChans == 2      \* Subscribe calls in one behaviour
MaxRec == 1        \* records the kernel produces in one run of the runtime
MaxObj == 2        \* Event objects the pool allocates in one behaviour
MaxTime == 2       \* ticks of the clock the metadata cache reads
MaxTTL == 2        \* largest TTL of the metadata cache tried, in ticks
MaxSize == 2       \* largest max size of the PID tier tried
MaxOps == 6        \* Acquire, write and Release calls in one behaviour of the pool
MaxMsg == 3        \* messages the broker holds for the consumer, events for the exporter
MaxBatch == 2      \* largest BatchSize tried
MaxDrop == 2       \* events the bus drops for one subscriber
MaxSample == 2     \* samples collectBusStats takes of a full drop counter
MaxLen == 5        \* longest domain name tried, in characters
HexLen == 2        \* length of a container id in the model (64 in the code)
MaxSeg == 2        \* most segments of a cgroup path tried
MaxCode == 30      \* largest drop reason code tried, besides 99 and 2^31 - 1

\* ------------------------------------------------------------- identities
\* modules in registration order (cmd/kubepulse main: RegisterModule)
Mods == <<"tcp", "dns">>
ModSet == {Mods[i] : i \in 1..Len(Mods)}
\* exporters in registration order; their names are their subscriber names
Exps == <<"prometheus", "nats">>
ExpSet == {Exps[i] : i \in 1..Len(Exps)}
\* goroutines that call Bus.Close once each in the bus-level specification
Closers == {"c1", "c2"}
RunThread == "run"
Threads == ModSet \cup ExpSet \cup Closers \cup {RunThread}

VARIABLES
  \* ---- Bus fields
  bufferSize,     \* Bus.bufferSize
  subscribers,    \* Bus.subscribers : name -> channel (index into chans)
  dropped,        \* Bus.dropped     : name -> drop counter
  closed,         \* Bus.closed
  published,      \* Bus.published
  readers,        \* goroutines holding Bus.mu.RLock
  chans,          \* every channel made by Subscribe: [buf, closed]
  \* ---- process
  panic,          \* "none", or the runtime panic that ended the process
  pc,             \* position of every goroutine
  todo,           \* Publish: subscribers the range loop has not visited yet
  seq,            \* Publish calls made so far by each publisher
  \* ---- history (observations, never read by the program)
  recvd,          \* per channel: events received so far, in order
  closes,         \* per channel: number of close(ch) executed
  chanInfo,       \* per channel: name, published count and close state at Subscribe
  closeRan,       \* number of times Close ran its locked section
  closeReturned,  \* some Close call has returned
  pubCalls,       \* per publisher: Publish calls that passed the closed check
  hb,             \* pairs <<e1, e2>>: Publish(e1) returned before Publish(e2) began
  lateCalls,      \* Publish calls that began after some Close call had returned
  \* ---- Runtime
  ctxDone,        \* the context passed to Run is cancelled
  isRoot,         \* os.Geteuid() == 0
  enabled,        \* cfg.ModuleEnabled(name)
  initialized,    \* Run: initialized modules, in order
  rtIdx,          \* Run: index of the loop Run is in
  readerOpen,     \* per module: its ringbuf.Reader is open
  events,         \* per exporter: the channel it got from Subscribe (0: none)
  nread,          \* records the modules have read from their ring buffers
  rtlog,          \* history of the calls Run made and saw return, in order
  stopTimedOut,   \* Run: the deadline of stopCtx (ShutdownTimeout) has passed
  objs,           \* per module: its BPF objects are loaded (m.objs)
  links,          \* per module: number of attached links (m.links, open)
  lifecycle,      \* per module: outcome of Init, number of Start and Stop calls by Run
  startRet,       \* per module: what its Start returned ("none": not yet)
  moduleErrors,   \* per module: the module_errors_total counter
  \* ---- Event pool
  pool,           \* objects idle in the sync.Pool
  evs,            \* every Event object allocated by pool.New, with its fields
  held,           \* objects a caller got from Acquire and has not released
  released,       \* history: per event, number of Release calls on it
  relDirty,       \* history: objects that carried data when they were released
  nops,           \* pool calls made so far
  \* ---- metadata Cache
  entries,        \* Cache.entries        : pid -> [meta, expires]
  containerIndex, \* Cache.containerIndex : container id -> PodMeta
  maxSize,        \* Cache.maxSize
  ttl,            \* Cache.ttl
  now,            \* time.Now()
  lk,             \* the Lookup call in progress: position, pid, container id, meta
  lkResult,       \* history: the last Lookup that returned, and what it saw
  \* ---- downstream Consumer
  cMsgs,          \* broker: per message "pending", "nak" or "acked"
  cBad,           \* messages whose payload json.Unmarshal rejects
  cBatchSize,     \* Consumer.cfg.BatchSize
  cBatch,         \* Consumer.batch (rows, named by their message)
  cStore,         \* rows the analytical store holds
  cCtxDone,       \* the context passed to Consumer.Run is cancelled
  cpc,            \* position of the callback, the flusher and Run
  cLocal,         \* flush: the batch each goroutine swapped out
  cCur,           \* callback: the message being handled and whether it filled the batch
  cFailed,        \* history: rows of batches whose insert failed
  cInsertedEmpty, \* history: InsertBatch was called with no rows
  cAppended,      \* history: rows the callback appended to the batch
  cInsertCalls,   \* history: per row, number of InsertBatch calls it was passed to
  \* ---- NATSExporter
  nCh,            \* the exporter's bus channel: events buffered in it
  nChClosed,      \* the bus closed that channel
  nSent,          \* events the bus has put into the channel so far
  nCtxDone,       \* the context passed to Start is cancelled
  nBatchSize,     \* NATSExporter.cfg.BatchSize
  nBatch,         \* NATSExporter.batch
  npc,            \* position of Start, the flusher and Stop
  nRet,           \* flush: where each goroutine continues after it
  nLocal,         \* flush: the batch each goroutine swapped out
  nStartRet,      \* what Start returned ("none": not yet)
  nRecv,          \* history: events Start received from the channel
  nPublished,     \* history: payloads handed to nc.Publish, in order
  \* ---- Prometheus exporter
  pReady,         \* Prometheus.ready
  pServer,        \* Prometheus.server: "nil", "listening" or "shutdown"
  pCtxDone,       \* the context passed to Start is cancelled
  ppc,            \* position of Start and of collectBusStats
  pBusDropped,    \* Bus.Stats().DroppedBySubscriber[name] for one subscriber
  pCounter,       \* events_dropped_total{subscriber=name}
  pStopCalled,    \* history: Stop has been called
  pProbe,         \* history: the last answer of /readyz and the state it was given in
  pSnap,          \* history: the dropped count the last sample read (-1: no sample)
  \* ---- TruncateDomain
  tIn,            \* the domain name passed in
  tDns,           \* results of the dns probe's TruncateDomain, applied once and twice
  tMet,           \* results of the metrics package's TruncateDomain, likewise
  tLabels,        \* labels of the DNS event the dns module published for that name
  \* ---- extractContainerID, DropReasonString
  gLine,          \* the cgroup line passed in
  gId,            \* what extractContainerID returned for it (<<"?">>: not called yet)
  dCode,          \* the drop reason code passed in
  dReason         \* what DropReasonString returned for it (<<"?">>: not called yet)

busVars == <<bufferSize, subscribers, dropped, closed, published, readers, chans>>
procVars == <<panic, pc, todo, seq>>
histVars == <<recvd, closes, chanInfo, closeRan, closeReturned, pubCalls, hb, lateCalls>>
rtVars == <<ctxDone, isRoot, enabled, initialized, rtIdx, readerOpen, events, nread, rtlog,
           stopTimedOut, objs, links, lifecycle, startRet, moduleErrors>>
poolVars == <<pool, evs, held, released, relDirty, nops>>
cacheVars == <<entries, containerIndex, maxSize, ttl, now, lk, lkResult>>
consVars == <<cMsgs, cBad, cBatchSize, cBatch, cStore, cCtxDone, cpc, cLocal, cCur, cFailed,
             cInsertedEmpty, cAppended, cInsertCalls>>
natsVars == <<nCh, nChClosed, nSent, nCtxDone, nBatchSize, nBatch, npc, nRet, nLocal,
             nStartRet, nRecv, nPublished>>
promVars == <<pReady, pServer, pCtxDone, ppc, pBusDropped, pCounter, pStopCalled, pProbe, pSnap>>
truncVars == <<tIn, tDns, tMet, tLabels>>
fnVars == <<gLine, gId, dCode, dReason>>
extVars == <<consVars, natsVars, promVars, truncVars, fnVars>>
libVars == <<poolVars, cacheVars, extVars>>
vars == <<busVars, procVars, histVars, rtVars, libVars>>

EmptyMap == [x \in {} |-> 0]

Range(s) == {s[i] : i \in 1..Len(s)}

RECURSIVE SumOver(_, _)
SumOver(f, S) ==
  IF S = {} THEN 0
  ELSE LET x == CHOOSE y \in S : TRUE IN f[x] + SumOver(f, S \ {x})

\* Publish calls made so far
Calls == SumOver(seq, ModSet)

\* ------------------------------------------------------------------- Bus
\* NewBus(bufferSize): no subscribers, counters zero, open
NewBus(size) ==
  /\ bufferSize = size
  /\ subscribers = EmptyMap
  /\ dropped = EmptyMap
  /\ closed = FALSE
  /\ published = 0
  /\ readers = {}
  /\ chans = <<>>
  /\ recvd = <<>>
  /\ closes = <<>>
  /\ chanInfo = <<>>
  /\ closeRan = 0
  /\ closeReturned = FALSE

\* Bus.mu is free for a writer: no reader holds it (Subscribe and Close run
\* their whole critical section as one step, so no writer is ever seen).
MuFree == readers = {}

\* Bus.Subscribe(name): under mu.Lock, make a channel of bufferSize, store it
\* under name (replacing any earlier one), store a fresh drop counter.
Subscribe(name) ==
  /\ panic = "none"
  /\ MuFree
  /\ Len(chans) < MaxChans
  /\ chans' = Append(chans, [buf |-> <<>>, closed |-> FALSE])
  /\ subscribers' = (name :> (Len(chans) + 1)) @@ subscribers
  /\ dropped' = (name :> 0) @@ dropped
  /\ recvd' = Append(recvd, <<>>)
  /\ closes' = Append(closes, 0)
  /\ chanInfo' = Append(chanInfo,
                   [name |-> name, pubAt |-> published, afterClose |-> closeRan > 0])
  /\ UNCHANGED <<bufferSize, closed, published, readers, closeRan, closeReturned>>

\* The event a publisher is publishing: its seq-th Publish call.
Cur(t) == <<t, seq[t]>>

\* a Publish call by t is between its entry and its return
InPublish(t) == pc[t] \in {"rlock", "loop"}

\* events whose Publish call has returned
Returned ==
  {e \in ModSet \X (1..MaxPub + 1) :
     e[2] < seq[e[1]] \/ (e[2] = seq[e[1]] /\ ~InPublish(e[1]))}

\* PublishCheck without the closed check
PublishCheck_IgnoreClosed(t, ret) ==
  /\ panic = "none"
  /\ pc[t] = "pub"
  /\ seq' = [seq EXCEPT ![t] = @ + 1]
  /\ pc' = [pc EXCEPT ![t] = "rlock"]
  /\ published' = published + 1
  /\ pubCalls' = [pubCalls EXCEPT ![t] = @ + 1]
  /\ hb' = hb \cup {<<e, <<t, seq[t] + 1>>>> : e \in Returned}
  /\ lateCalls' = IF closeReturned THEN lateCalls + 1 ELSE lateCalls
  /\ UNCHANGED <<bufferSize, subscribers, dropped, closed, readers, chans>>
  /\ UNCHANGED <<panic, todo>>
  /\ UNCHANGED <<recvd, closes, chanInfo, closeRan, closeReturned>>

\* Bus.Publish entry:  if b.closed.Load() { return };  b.published.Add(1)
\* (the Add reads nothing another goroutine writes, so it is taken together
\* with the Load).  The call is the caller's next, seq[t] + 1.
PublishCheck(t, ret) ==
  /\ panic = "none"
  /\ pc[t] = "pub"
  /\ seq' = [seq EXCEPT ![t] = @ + 1]
  /\ IF closed
       THEN /\ pc' = [pc EXCEPT ![t] = ret]
            /\ UNCHANGED <<published, pubCalls>>
       ELSE /\ pc' = [pc EXCEPT ![t] = "rlock"]
            /\ published' = published + 1
            /\ pubCalls' = [pubCalls EXCEPT ![t] = @ + 1]
  /\ UNCHANGED <<bufferSize, subscribers, dropped, closed, readers, chans>>
  /\ hb' = hb \cup {<<e, <<t, seq[t] + 1>>>> : e \in Returned}
  /\ lateCalls' = IF closeReturned THEN lateCalls + 1 ELSE lateCalls
  /\ UNCHANGED <<panic, todo>>
  /\ UNCHANGED <<recvd, closes, chanInfo, closeRan, closeReturned>>

\* Bus.Publish: b.mu.RLock(); the range loop starts over the current map
PublishRLock(t) ==
  /\ panic = "none"
  /\ pc[t] = "rlock"
  /\ readers' = readers \cup {t}
  /\ todo' = [todo EXCEPT ![t] = DOMAIN subscribers]
  /\ pc' = [pc EXCEPT ![t] = "loop"]
  /\ UNCHANGED <<bufferSize, subscribers, dropped, closed, published, chans>>
  /\ UNCHANGED <<panic, seq, histVars>>

\* PublishSend with a blocking send:  ch <- e  without the default case
PublishSend_Blocking(t) ==
  /\ panic = "none"
  /\ pc[t] = "loop"
  /\ \E name \in todo[t] :
       LET ch == subscribers[name] IN
       /\ todo' = [todo EXCEPT ![t] = @ \ {name}]
       /\ IF chans[ch].closed
            THEN /\ panic' = "send on closed channel"
                 /\ UNCHANGED <<chans, dropped>>
            ELSE /\ Len(chans[ch].buf) < bufferSize
                 /\ chans' = [chans EXCEPT ![ch].buf = Append(@, Cur(t))]
                 /\ UNCHANGED <<dropped, panic>>
  /\ UNCHANGED <<bufferSize, subscribers, closed, published, readers>>
  /\ UNCHANGED <<pc, seq, histVars>>

\* PublishSend that drops without counting the drop
PublishSend_SilentDrop(t) ==
  /\ panic = "none"
  /\ pc[t] = "loop"
  /\ \E name \in todo[t] :
       LET ch == subscribers[name] IN
       /\ todo' = [todo EXCEPT ![t] = @ \ {name}]
       /\ IF chans[ch].closed
            THEN /\ panic' = "send on closed channel"
                 /\ UNCHANGED <<chans, dropped>>
            ELSE IF Len(chans[ch].buf) < bufferSize
              THEN /\ chans' = [chans EXCEPT ![ch].buf = Append(@, Cur(t))]
                   /\ UNCHANGED <<dropped, panic>>
              ELSE UNCHANGED <<dropped, chans, panic>>
  /\ UNCHANGED <<bufferSize, subscribers, closed, published, readers>>
  /\ UNCHANGED <<pc, seq, histVars>>

\* PublishSend that puts the event at the head of the queue
PublishSend_Lifo(t) ==
  /\ panic = "none"
  /\ pc[t] = "loop"
  /\ \E name \in todo[t] :
       LET ch == subscribers[name] IN
       /\ todo' = [todo EXCEPT ![t] = @ \ {name}]
       /\ IF chans[ch].closed
            THEN /\ panic' = "send on closed channel"
                 /\ UNCHANGED <<chans, dropped>>
            ELSE IF Len(chans[ch].buf) < bufferSize
              THEN /\ chans' = [chans EXCEPT ![ch].buf = <<Cur(t)>> \o @]
                   /\ UNCHANGED <<dropped, panic>>
              ELSE /\ dropped' = IF name \in DOMAIN dropped
                                   THEN [dropped EXCEPT ![name] = @ + 1]
                                   ELSE dropped
                   /\ UNCHANGED <<chans, panic>>
  /\ UNCHANGED <<bufferSize, subscribers, closed, published, readers>>
  /\ UNCHANGED <<pc, seq, histVars>>

\* PublishSend that counts a delivered event as dropped too
PublishSend_CountDelivered(t) ==
  /\ panic = "none"
  /\ pc[t] = "loop"
  /\ \E name \in todo[t] :
       LET ch == subscribers[name] IN
       /\ todo' = [todo EXCEPT ![t] = @ \ {name}]
       /\ IF chans[ch].closed
            THEN /\ panic' = "send on closed channel"
                 /\ UNCHANGED <<chans, dropped>>
            ELSE /\ IF Len(chans[ch].buf) < bufferSize
                      THEN chans' = [chans EXCEPT ![ch].buf = Append(@, Cur(t))]
                      ELSE chans' = chans
                 /\ dropped' = [dropped EXCEPT ![name] = @ + 1]
                 /\ panic' = panic
  /\ UNCHANGED <<bufferSize, subscribers, closed, published, readers>>
  /\ UNCHANGED <<pc, seq, histVars>>

\* PublishSend that queues the event even when the buffer is full
PublishSend_Overfill(t) ==
  /\ panic = "none"
  /\ pc[t] = "loop"
  /\ \E name \in todo[t] :
       LET ch == subscribers[name] IN
       /\ todo' = [todo EXCEPT ![t] = @ \ {name}]
       /\ IF chans[ch].closed
            THEN /\ panic' = "send on closed channel"
                 /\ UNCHANGED <<chans, dropped>>
            ELSE /\ chans' = [chans EXCEPT ![ch].buf = Append(@, Cur(t))]
                 /\ UNCHANGED <<dropped, panic>>
  /\ UNCHANGED <<bufferSize, subscribers, closed, published, readers>>
  /\ UNCHANGED <<pc, seq, histVars>>

\* Bus.Publish, one iteration of the range loop, in any map order:
\*   select { case ch <- e: default: dropped[name].Add(1) }
\* A send on a closed channel panics, also inside a select with a default.
PublishSend(t) ==
  /\ panic = "none"
  /\ pc[t] = "loop"
  /\ \E name \in todo[t] :
       LET ch == subscribers[name] IN
       /\ todo' = [todo EXCEPT ![t] = @ \ {name}]
       /\ IF chans[ch].closed
            THEN /\ panic' = "send on closed channel"
                 /\ UNCHANGED <<chans, dropped>>
            ELSE IF Len(chans[ch].buf) < bufferSize
              THEN /\ chans' = [chans EXCEPT ![ch].buf = Append(@, Cur(t))]
                   /\ UNCHANGED <<dropped, panic>>
              ELSE /\ dropped' = IF name \in DOMAIN dropped
                                   THEN [dropped EXCEPT ![name] = @ + 1]
                                   ELSE dropped
                   /\ UNCHANGED <<chans, panic>>
  /\ UNCHANGED <<bufferSize, subscribers, closed, published, readers>>
  /\ UNCHANGED <<pc, seq, histVars>>

\* Bus.Publish: the loop is over; deferred b.mu.RUnlock(); return
PublishReturn(t, ret) ==
  /\ panic = "none"
  /\ pc[t] = "loop"
  /\ todo[t] = {}
  /\ readers' = readers \ {t}
  /\ pc' = [pc EXCEPT ![t] = ret]
  /\ UNCHANGED <<bufferSize, subscribers, dropped, closed, published, chans>>
  /\ UNCHANGED <<panic, todo, seq, histVars>>

\* CloseSwap that sets the flag but ignores its old value
CloseSwap_NoGuard(t, ret) ==
  /\ panic = "none"
  /\ pc[t] = "close"
  /\ closed' = TRUE
  /\ pc' = [pc EXCEPT ![t] = "close_lock"]
  /\ closeReturned' = closeReturned
  /\ UNCHANGED <<bufferSize, subscribers, dropped, published, readers, chans>>
  /\ UNCHANGED <<panic, todo, seq>>
  /\ UNCHANGED <<recvd, closes, chanInfo, closeRan, pubCalls, hb, lateCalls>>

\* Bus.Close, first statement: if b.closed.Swap(true) { return }
CloseSwap(t, ret) ==
  /\ panic = "none"
  /\ pc[t] = "close"
  /\ closed' = TRUE
  /\ IF closed
       THEN /\ pc' = [pc EXCEPT ![t] = ret]
            /\ closeReturned' = TRUE
       ELSE /\ pc' = [pc EXCEPT ![t] = "close_lock"]
            /\ closeReturned' = closeReturned
  /\ UNCHANGED <<bufferSize, subscribers, dropped, published, readers, chans>>
  /\ UNCHANGED <<panic, todo, seq>>
  /\ UNCHANGED <<recvd, closes, chanInfo, closeRan, pubCalls, hb, lateCalls>>

\* Bus.Close: under mu.Lock, close(ch) for every channel in the map; return.
\* close of a closed channel panics.
CloseLocked(t, ret) ==
  /\ panic = "none"
  /\ pc[t] = "close_lock"
  /\ MuFree
  /\ LET regd == {subscribers[n] : n \in DOMAIN subscribers} IN
     /\ closes' = [c \in 1..Len(chans) |->
                     IF c \in regd THEN closes[c] + 1 ELSE closes[c]]
     /\ IF \E c \in regd : chans[c].closed
          THEN /\ panic' = "close of closed channel"
               /\ UNCHANGED <<chans, pc, closeRan, closeReturned>>
          ELSE /\ chans' = [c \in 1..Len(chans) |->
                              IF c \in regd THEN [chans[c] EXCEPT !.closed = TRUE]
                                            ELSE chans[c]]
               /\ pc' = [pc EXCEPT ![t] = ret]
               /\ closeRan' = closeRan + 1
               /\ closeReturned' = TRUE
               /\ panic' = panic
  /\ UNCHANGED <<bufferSize, subscribers, dropped, closed, published, readers>>
  /\ UNCHANGED <<todo, seq, recvd, chanInfo, pubCalls, hb, lateCalls>>

\* a consumer takes the head of channel ch:  evt, ok := <-ch  with ok = true
Receive(ch) ==
  /\ panic = "none"
  /\ ch \in 1..Len(chans)
  /\ chans[ch].buf # <<>>
  /\ recvd' = [recvd EXCEPT ![ch] = Append(@, Head(chans[ch].buf))]
  /\ chans' = [chans EXCEPT ![ch].buf = Tail(@)]
  /\ UNCHANGED <<bufferSize, subscribers, dropped, closed, published, readers>>
  /\ UNCHANGED <<procVars, closes, chanInfo, closeRan, closeReturned, pubCalls, hb, lateCalls>>

\* Bus.Stats(): QueueDepth[name] = len(ch)
QueueDepth(name) == Len(chans[subscribers[name]].buf)

\* ------------------------------------------------------------ Event pool
\* scalar fields of Event
Scalars == {"Type", "Timestamp", "PID", "UID", "Comm", "Node", "Namespace", "Pod"}
\* the Go zero value of a scalar field (TypeUnknown is iota 0) and one other value
Zero(f) ==
  IF f = "Type" THEN "unknown"
  ELSE IF f \in {"Timestamp", "PID", "UID"} THEN 0 ELSE ""
NonZero(f) ==
  IF f = "Type" THEN "tcp"
  ELSE IF f \in {"Timestamp", "PID", "UID"} THEN 1 ELSE "x"
LabelKeys == {"src"}
NumericKeys == {"latency_ns"}

\* pool.New: &Event{Labels: make(map), Numeric: make(map)}, all else zero
NewEvent ==
  [Type |-> "unknown", Timestamp |-> 0, PID |-> 0, UID |-> 0,
   Comm |-> "", Node |-> "", Namespace |-> "", Pod |-> "",
   Labels |-> EmptyMap, Numeric |-> EmptyMap]

\* Acquire: pool.Get() gives an object that is idle in the pool, or, when
\* the pool has none for this caller, a new one from pool.New
Acquire ==
  /\ nops < MaxOps
  /\ \/ \E o \in pool :
          /\ pool' = pool \ {o}
          /\ held' = held \cup {o}
          /\ evs' = evs
     \/ /\ Len(evs) < MaxObj
        /\ evs' = Append(evs, NewEvent)
        /\ held' = held \cup {Len(evs) + 1}
        /\ pool' = pool
  /\ nops' = nops + 1
  /\ UNCHANGED <<released, relDirty>>

\* a caller assigns a scalar field of an event it holds:  e.PID = raw.PID
SetField(o, f, v) ==
  /\ nops < MaxOps
  /\ o \in held
  /\ evs' = [evs EXCEPT ![o][f] = v]
  /\ nops' = nops + 1
  /\ UNCHANGED <<pool, held, released, relDirty>>

\* Event.SetLabel(key, value):  e.Labels[key] = value
SetLabel(o, key, value) ==
  /\ nops < MaxOps
  /\ o \in held
  /\ evs' = [evs EXCEPT ![o].Labels = (key :> value) @@ @]
  /\ nops' = nops + 1
  /\ UNCHANGED <<pool, held, released, relDirty>>

\* Event.SetNumeric(key, value):  e.Numeric[key] = value
SetNumeric(o, key, value) ==
  /\ nops < MaxOps
  /\ o \in held
  /\ evs' = [evs EXCEPT ![o].Numeric = (key :> value) @@ @]
  /\ nops' = nops + 1
  /\ UNCHANGED <<pool, held, released, relDirty>>

\* the release count of event e after one more Release
Counted(e) ==
  IF e \in DOMAIN released THEN [released EXCEPT ![e] = @ + 1]
                            ELSE (e :> 1) @@ released

\* Release that leaves the Labels map as it is
Release_KeepLabels(o) ==
  /\ nops < MaxOps
  /\ o \in held
  /\ evs' = [evs EXCEPT ![o] =
              [Type |-> "unknown", Timestamp |-> 0, PID |-> 0, UID |-> 0,
               Comm |-> "", Node |-> "", Namespace |-> "", Pod |-> "",
               Labels |-> @.Labels,
               Numeric |-> [k \in DOMAIN @.Numeric \ DOMAIN @.Numeric |-> 0]]]
  /\ pool' = pool \cup {o}
  /\ held' = held \ {o}
  /\ released' = Counted(o)
  /\ relDirty' = IF evs[o] # NewEvent THEN relDirty \cup {o} ELSE relDirty
  /\ nops' = nops + 1

\* Event.Release: every scalar field is set to its zero value, every key is
\* deleted from Labels and from Numeric (the maps are kept), pool.Put(e)
Release(o) ==
  /\ nops < MaxOps
  /\ o \in held
  /\ evs' = [evs EXCEPT ![o] =
              [Type |-> "unknown", Timestamp |-> 0, PID |-> 0, UID |-> 0,
               Comm |-> "", Node |-> "", Namespace |-> "", Pod |-> "",
               Labels |-> [k \in DOMAIN @.Labels \ DOMAIN @.Labels |-> ""],
               Numeric |-> [k \in DOMAIN @.Numeric \ DOMAIN @.Numeric |-> 0]]]
  /\ pool' = pool \cup {o}
  /\ held' = held \ {o}
  /\ released' = Counted(o)
  /\ relDirty' = IF evs[o] # NewEvent THEN relDirty \cup {o} ELSE relDirty
  /\ nops' = nops + 1

\* no pool call has been made
PoolIdle ==
  /\ pool = {}
  /\ evs = <<>>
  /\ held = {}
  /\ released = EmptyMap
  /\ relDirty = {}
  /\ nops = 0

\* -------------------------------------------------------- metadata Cache
Pids == {1, 2, 3}
ContainerIDs == {"a", "b"}
PodMetas == {"pod1", "pod2"}

\* Cache.resolveContainerID(pid): the container id in the cgroup file of the
\* process, "" for a process that is in no container (or an unreadable file)
Resolve(pid) == IF pid = 1 THEN "a" ELSE IF pid = 2 THEN "b" ELSE ""

\* what the PID tier holds for pid: nothing, an entry a Lookup returns
\* (now < expires) or an entry that has expired (expires <= now)
Seen(pid) ==
  IF pid \notin DOMAIN entries THEN "none"
  ELSE IF entries[pid].expires <= now THEN "expired" ELSE "fresh"

\* no Lookup call is in progress (cached, inIndex, idxMeta: what the call saw
\* when it read the PID tier and the container index)
LkIdle ==
  [pc |-> "idle", pid |-> 0, cid |-> "", meta |-> "", inIndex |-> FALSE,
   cached |-> "none", idxMeta |-> ""]

\* what a returning Lookup(pid) is recorded with: its results, whether the
\* PID tier held an unexpired entry for pid when it was read (hit), and
\* whether the container index held the resolver's id for pid at that point
Observed(pid, found, meta, hit) ==
  [pid |-> pid, found |-> found, meta |-> meta, hit |-> hit,
   inIndex |-> Resolve(pid) \in DOMAIN containerIndex,
   cached |-> IF lk.pc = "idle" THEN Seen(pid) ELSE lk.cached,
   idxMeta |-> ""]

\* NewCache(config): both tiers empty
NewCache(size, t) ==
  /\ entries = EmptyMap
  /\ containerIndex = EmptyMap
  /\ maxSize = size
  /\ ttl = t
  /\ now = 0
  /\ lk = LkIdle
  /\ lkResult = [pid |-> 0, found |-> FALSE, meta |-> "", hit |-> FALSE, inIndex |-> FALSE,
                 cached |-> "none", idxMeta |-> ""]

\* LookupCache that still returns an entry at the instant it expires
LookupCache_LateExpiry(pid) ==
  /\ lk.pc = "idle"
  /\ IF pid \in DOMAIN entries /\ now <= entries[pid].expires
       THEN /\ lkResult' = Observed(pid, TRUE, entries[pid].meta, TRUE)
            /\ lk' = lk
       ELSE IF Resolve(pid) = ""
         THEN /\ lkResult' = Observed(pid, FALSE, "", FALSE)
              /\ lk' = lk
         ELSE /\ lk' = [pc |-> "index", pid |-> pid, cid |-> Resolve(pid), meta |-> "",
                         inIndex |-> FALSE, cached |-> Seen(pid), idxMeta |-> ""]
              /\ lkResult' = lkResult
  /\ UNCHANGED <<entries, containerIndex, maxSize, ttl, now>>

\* Cache.Lookup(pid), up to the container id: an entry of the PID tier that
\* has not expired (time.Now().Before(entry.expires)) is returned; otherwise
\* the resolver is asked, and an error or an empty id returns not found
LookupCache(pid) ==
  /\ lk.pc = "idle"
  /\ IF pid \in DOMAIN entries /\ now < entries[pid].expires
       THEN /\ lkResult' = Observed(pid, TRUE, entries[pid].meta, TRUE)
            /\ lk' = lk
       ELSE IF Resolve(pid) = ""
         THEN /\ lkResult' = Observed(pid, FALSE, "", FALSE)
              /\ lk' = lk
         ELSE /\ lk' = [pc |-> "index", pid |-> pid, cid |-> Resolve(pid), meta |-> "",
                         inIndex |-> FALSE, cached |-> Seen(pid), idxMeta |-> ""]
              /\ lkResult' = lkResult
  /\ UNCHANGED <<entries, containerIndex, maxSize, ttl, now>>

\* LookupIndex that stores an entry without metadata for an id the index
\* does not hold
LookupIndex_CachesMiss ==
  /\ lk.pc = "index"
  /\ IF lk.cid \in DOMAIN containerIndex
       THEN /\ lk' = [lk EXCEPT !.pc = "set", !.meta = containerIndex[lk.cid],
                                 !.inIndex = lk.cid \in DOMAIN containerIndex,
                                 !.idxMeta = containerIndex[lk.cid]]
            /\ lkResult' = lkResult
            /\ entries' = entries
       ELSE /\ lkResult' = Observed(lk.pid, FALSE, "", FALSE)
            /\ lk' = LkIdle
            /\ entries' = (lk.pid :> [meta |-> "", expires |-> now + ttl]) @@ entries
  /\ UNCHANGED <<containerIndex, maxSize, ttl, now>>

\* LookupIndex that reports found for an id the index does not hold
LookupIndex_AlwaysFound ==
  /\ lk.pc = "index"
  /\ lk' = [lk EXCEPT !.pc = "set",
                       !.meta = IF lk.cid \in DOMAIN containerIndex
                                  THEN containerIndex[lk.cid] ELSE "pod1",
                       !.inIndex = lk.cid \in DOMAIN containerIndex,
                       !.idxMeta = IF lk.cid \in DOMAIN containerIndex
                                     THEN containerIndex[lk.cid] ELSE ""]
  /\ lkResult' = lkResult
  /\ UNCHANGED <<entries, containerIndex, maxSize, ttl, now>>

\* Cache.Lookup: under ciMu.RLock,  meta, found := c.containerIndex[containerID];
\* not found returns not found
LookupIndex ==
  /\ lk.pc = "index"
  /\ IF lk.cid \in DOMAIN containerIndex
       THEN /\ lk' = [lk EXCEPT !.pc = "set", !.meta = containerIndex[lk.cid],
                                 !.inIndex = lk.cid \in DOMAIN containerIndex,
                                 !.idxMeta = containerIndex[lk.cid]]
            /\ lkResult' = lkResult
       ELSE /\ lkResult' = Observed(lk.pid, FALSE, "", FALSE)
            /\ lk' = LkIdle
  /\ UNCHANGED <<entries, containerIndex, maxSize, ttl, now>>

\* the function f without the keys in D
Without(f, D) == [x \in DOMAIN f \ D |-> f[x]]

\* Cache.evict, first pass: the entries it deletes (now.After(entry.expires))
Expired(es) == {pid \in DOMAIN es : now > es[pid].expires}

\* Cache.evict: the PID tiers it can leave.  Expired entries are deleted; if
\* the tier is still at maxSize, the range loop deletes maxSize / 4 entries,
\* whichever the map order gives first
Evict(es) ==
  LET kept == Without(es, Expired(es))
      toRemove == maxSize \div 4
      n == IF Cardinality(DOMAIN kept) < toRemove
             THEN Cardinality(DOMAIN kept) ELSE toRemove
  IN IF Cardinality(DOMAIN kept) >= maxSize
       THEN {Without(kept, D) : D \in {X \in SUBSET DOMAIN kept : Cardinality(X) = n}}
       ELSE {kept}

\* Cache.Lookup, last part:  c.set(pid, meta)  under mu.Lock (evict if the
\* tier is at maxSize, store the entry with expires = now + ttl); return found
LookupSet ==
  /\ lk.pc = "set"
  /\ \E es \in (IF Cardinality(DOMAIN entries) >= maxSize THEN Evict(entries) ELSE {entries}) :
       entries' = (lk.pid :> [meta |-> lk.meta, expires |-> now + ttl]) @@ es
  /\ lkResult' = [pid |-> lk.pid, found |-> TRUE, meta |-> lk.meta, hit |-> FALSE,
                  inIndex |-> lk.inIndex, cached |-> lk.cached, idxMeta |-> lk.idxMeta]
  /\ lk' = LkIdle
  /\ UNCHANGED <<containerIndex, maxSize, ttl, now>>

\* Cache.UpdatePod(containerID, meta), called by the informer
UpdatePod(cid, meta) ==
  /\ containerIndex' = (cid :> meta) @@ containerIndex
  /\ UNCHANGED <<entries, maxSize, ttl, now, lk, lkResult>>

\* Cache.DeletePod(containerID), called by the informer
DeletePod(cid) ==
  /\ cid \in DOMAIN containerIndex
  /\ containerIndex' = Without(containerIndex, {cid})
  /\ UNCHANGED <<entries, maxSize, ttl, now, lk, lkResult>>

\* the clock advances
Tick ==
  /\ now < MaxTime
  /\ now' = now + 1
  /\ UNCHANGED <<entries, containerIndex, maxSize, ttl, lk, lkResult>>

\* the runtime's cache before any call (DefaultCacheConfig stands for one
\* positive size and TTL)
CacheIdle == NewCache(MaxSize, MaxTTL)

\* ------------------------------------------------------ downstream Consumer
Msgs == 1..MaxMsg

\* number of positions of sequence q that hold x
Occurrences(q, x) == Cardinality({i \in 1..Len(q) : q[i] = x})
CThreads == {"callback", "flusher", "run"}

\* where flush returns to in each goroutine
CRet(t) == IF t = "callback" THEN "idle" ELSE IF t = "flusher" THEN "select" ELSE "returned"

\* New(cfg, ch, logger), before Run
NewConsumer(size, bad) ==
  /\ cMsgs = [m \in Msgs |-> "pending"]
  /\ cBad = bad
  /\ cBatchSize = size
  /\ cBatch = <<>>
  /\ cStore = {}
  /\ cCtxDone = FALSE
  /\ cpc = [t \in CThreads |-> IF t = "run" THEN "connect" ELSE "off"]
  /\ cLocal = [t \in CThreads |-> <<>>]
  /\ cCur = [msg |-> 0, full |-> FALSE]
  /\ cFailed = {}
  /\ cInsertedEmpty = FALSE
  /\ cAppended = {}
  /\ cInsertCalls = [m \in Msgs |-> 0]

\* the context of Run is cancelled
ConsumerCancel ==
  /\ ~cCtxDone
  /\ cCtxDone' = TRUE
  /\ UNCHANGED <<cMsgs, cBad, cBatchSize, cBatch, cStore, cpc, cLocal, cCur, cFailed,
                 cInsertedEmpty, cAppended, cInsertCalls>>

\* Consumer.Run up to cons.Consume: connect, create the durable consumer,
\* start the flusher and register the callback; any error returns it
ConsumerRunSetup(ok) ==
  /\ cpc["run"] = "connect"
  /\ ok => ~cCtxDone
  /\ cpc' = IF ok THEN [callback |-> "idle", flusher |-> "select", run |-> "wait"]
                  ELSE [cpc EXCEPT !["run"] = "returned"]
  /\ UNCHANGED <<cMsgs, cBad, cBatchSize, cBatch, cStore, cCtxDone, cLocal, cCur, cFailed,
                 cInsertedEmpty, cAppended, cInsertCalls>>

\* the Consume callback up to c.mu.Unlock: a payload that does not decode is
\* nak'ed (the broker delivers it again), any other is appended as a row
ConsumeMsg(m) ==
  /\ cpc["callback"] = "idle"
  /\ cpc["run"] # "returned"
  /\ cMsgs[m] \in {"pending", "nak"}
  /\ IF m \in cBad
       THEN /\ cMsgs' = [cMsgs EXCEPT ![m] = "nak"]
            /\ UNCHANGED <<cBatch, cpc, cCur, cAppended>>
       ELSE /\ cBatch' = Append(cBatch, m)
            /\ cAppended' = cAppended \cup {m}
            /\ cCur' = [msg |-> m, full |-> Len(cBatch) + 1 >= cBatchSize]
            /\ cpc' = [cpc EXCEPT !["callback"] = "ack"]
            /\ cMsgs' = cMsgs
  /\ UNCHANGED <<cBad, cBatchSize, cStore, cCtxDone, cLocal, cFailed, cInsertedEmpty,
                 cInsertCalls>>

\* ConsumeAck that never flushes a full batch
ConsumeAck_NoFlush ==
  /\ cpc["callback"] = "ack"
  /\ cMsgs' = [cMsgs EXCEPT ![cCur.msg] = "acked"]
  /\ cpc' = [cpc EXCEPT !["callback"] = "idle"]
  /\ UNCHANGED <<cBad, cBatchSize, cBatch, cStore, cCtxDone, cLocal, cCur, cFailed,
                 cInsertedEmpty, cAppended, cInsertCalls>>

\* the Consume callback from msg.Ack(): the message is acknowledged, and the
\* callback calls flush if its append filled the batch
ConsumeAck ==
  /\ cpc["callback"] = "ack"
  /\ cMsgs' = [cMsgs EXCEPT ![cCur.msg] = "acked"]
  /\ cpc' = [cpc EXCEPT !["callback"] = IF cCur.full THEN "swap" ELSE "idle"]
  /\ UNCHANGED <<cBad, cBatchSize, cBatch, cStore, cCtxDone, cLocal, cCur, cFailed,
                 cInsertedEmpty, cAppended, cInsertCalls>>

\* ConsumerFlushSwap that leaves the rows in the pending batch
ConsumerFlushSwap_KeepBatch(t) ==
  /\ cpc[t] = "swap"
  /\ IF Len(cBatch) = 0
       THEN /\ cpc' = [cpc EXCEPT ![t] = CRet(t)]
            /\ UNCHANGED <<cBatch, cLocal>>
       ELSE /\ cLocal' = [cLocal EXCEPT ![t] = cBatch]
            /\ cBatch' = cBatch
            /\ cpc' = [cpc EXCEPT ![t] = "insert"]
  /\ UNCHANGED <<cMsgs, cBad, cBatchSize, cStore, cCtxDone, cCur, cFailed, cInsertedEmpty,
                 cAppended, cInsertCalls>>

\* Consumer.flush under c.mu: an empty batch returns, any other is swapped
\* for a new one
ConsumerFlushSwap(t) ==
  /\ cpc[t] = "swap"
  /\ IF Len(cBatch) = 0
       THEN /\ cpc' = [cpc EXCEPT ![t] = CRet(t)]
            /\ UNCHANGED <<cBatch, cLocal>>
       ELSE /\ cLocal' = [cLocal EXCEPT ![t] = cBatch]
            /\ cBatch' = <<>>
            /\ cpc' = [cpc EXCEPT ![t] = "insert"]
  /\ UNCHANGED <<cMsgs, cBad, cBatchSize, cStore, cCtxDone, cCur, cFailed, cInsertedEmpty, cAppended, cInsertCalls>>

\* ConsumerFlushInsert that puts the rows of a failed insert back
ConsumerFlushInsert_PutBack(t, ok) ==
  /\ cpc[t] = "insert"
  /\ cInsertedEmpty' = (cInsertedEmpty \/ Len(cLocal[t]) = 0)
  /\ cInsertCalls' = [m \in Msgs |-> cInsertCalls[m] + Occurrences(cLocal[t], m)]
  /\ IF ok
       THEN /\ cStore' = cStore \cup Range(cLocal[t])
            /\ UNCHANGED <<cFailed, cBatch>>
       ELSE /\ cFailed' = cFailed \cup Range(cLocal[t])
            /\ cBatch' = cLocal[t] \o cBatch
            /\ cStore' = cStore
  /\ cLocal' = [cLocal EXCEPT ![t] = <<>>]
  /\ cpc' = [cpc EXCEPT ![t] = CRet(t)]
  /\ UNCHANGED <<cMsgs, cBad, cBatchSize, cCtxDone, cCur, cAppended>>

\* Consumer.flush after the swap: InsertBatch writes every row of the
\* swapped batch or fails; a failure is logged and the rows are let go
ConsumerFlushInsert(t, ok) ==
  /\ cpc[t] = "insert"
  /\ cInsertedEmpty' = (cInsertedEmpty \/ Len(cLocal[t]) = 0)
  /\ cInsertCalls' = [m \in Msgs |-> cInsertCalls[m] + Occurrences(cLocal[t], m)]
  /\ IF ok
       THEN /\ cStore' = cStore \cup Range(cLocal[t])
            /\ cFailed' = cFailed
       ELSE /\ cFailed' = cFailed \cup Range(cLocal[t])
            /\ cStore' = cStore
  /\ cLocal' = [cLocal EXCEPT ![t] = <<>>]
  /\ cpc' = [cpc EXCEPT ![t] = CRet(t)]
  /\ UNCHANGED <<cMsgs, cBad, cBatchSize, cBatch, cCtxDone, cCur, cAppended>>

\* Consumer.flusher: the select takes a tick and calls flush, or sees the
\* cancelled context and returns
ConsumerFlusherSelect(tick) ==
  /\ cpc["flusher"] = "select"
  /\ ~tick => cCtxDone
  /\ cpc' = [cpc EXCEPT !["flusher"] = IF tick THEN "swap" ELSE "done"]
  /\ UNCHANGED <<cMsgs, cBad, cBatchSize, cBatch, cStore, cCtxDone, cLocal, cCur, cFailed,
                 cInsertedEmpty, cAppended, cInsertCalls>>

\* Consumer.Run after <-ctx.Done(): the last flush, then return nil
ConsumerRunDone ==
  /\ cpc["run"] = "wait"
  /\ cCtxDone
  /\ cpc' = [cpc EXCEPT !["run"] = "swap"]
  /\ UNCHANGED <<cMsgs, cBad, cBatchSize, cBatch, cStore, cCtxDone, cLocal, cCur, cFailed,
                 cInsertedEmpty, cAppended, cInsertCalls>>

\* no consumer runs
ConsIdle == NewConsumer(1, {})

\* ------------------------------------------------------------ NATSExporter
NThreads == {"start", "flusher", "stop"}

\* json.Marshal of the wireEvent built from evt: it fails only for a NaN or
\* infinite value in Numerics, which no module sets (they convert integer
\* fields of the kernel record)
Marshal(evt) == [ok |-> evt \in Msgs, data |-> evt]

\* NewNATSExporter(cfg, bus, logger), before Start
NewNATSExporter(size) ==
  /\ nCh = <<>>
  /\ nChClosed = FALSE
  /\ nSent = 0
  /\ nCtxDone = FALSE
  /\ nBatchSize = size
  /\ nBatch = <<>>
  /\ npc = [t \in NThreads |-> IF t = "start" THEN "connect" ELSE "off"]
  /\ nRet = [t \in NThreads |-> "off"]
  /\ nLocal = [t \in NThreads |-> <<>>]
  /\ nStartRet = "none"
  /\ nRecv = {}
  /\ nPublished = <<>>

\* the context of Start is cancelled
NatsCancel ==
  /\ ~nCtxDone
  /\ nCtxDone' = TRUE
  /\ UNCHANGED <<nCh, nChClosed, nSent, nBatchSize, nBatch, npc, nRet, nLocal, nStartRet,
                 nRecv, nPublished>>

\* Start up to the loop: connect, create the stream, subscribe and start the
\* flusher; any error returns it
NatsStartSetup(ok) ==
  /\ npc["start"] = "connect"
  /\ ok => ~nCtxDone
  /\ IF ok
       THEN /\ npc' = [npc EXCEPT !["start"] = "select", !["flusher"] = "select"]
            /\ nStartRet' = nStartRet
       ELSE /\ npc' = [npc EXCEPT !["start"] = "returned"]
            /\ nStartRet' = "err"
  /\ UNCHANGED <<nCh, nChClosed, nSent, nCtxDone, nBatchSize, nBatch, nRet, nLocal, nRecv,
                 nPublished>>

\* Bus.Publish puts an event into the exporter's channel (a full channel
\* drops it)
NatsBusSend ==
  /\ npc["start"] # "connect"
  /\ nStartRet # "err"
  /\ ~nChClosed
  /\ nSent < MaxMsg
  /\ Len(nCh) < MaxBuf
  /\ nSent' = nSent + 1
  /\ nCh' = Append(nCh, nSent + 1)
  /\ UNCHANGED <<nChClosed, nCtxDone, nBatchSize, nBatch, npc, nRet, nLocal, nStartRet, nRecv,
                 nPublished>>

\* Bus.Close closes the exporter's channel
NatsBusClose ==
  /\ npc["start"] # "connect"
  /\ nStartRet # "err"
  /\ ~nChClosed
  /\ nChClosed' = TRUE
  /\ UNCHANGED <<nCh, nSent, nCtxDone, nBatchSize, nBatch, npc, nRet, nLocal, nStartRet, nRecv,
                 nPublished>>

\* enqueue(evt): the batch after the append, and whether it is full
NatsEnqueue(evt) ==
  IF Marshal(evt).ok
    THEN [batch |-> Append(nBatch, Marshal(evt).data),
          full |-> Len(nBatch) + 1 >= nBatchSize]
    ELSE [batch |-> nBatch, full |-> FALSE]

\* NatsStartSelect that returns without the last flush
NatsStartSelect_NoFinalFlush(case) ==
  /\ npc["start"] = "select"
  /\ CASE case = "done" ->
            /\ nCtxDone
            /\ npc' = [npc EXCEPT !["start"] = "returned"]
            /\ nStartRet' = "ctx"
            /\ UNCHANGED <<nCh, nBatch, nRecv, nRet>>
       [] case = "closed" ->
            /\ nChClosed /\ Len(nCh) = 0
            /\ npc' = [npc EXCEPT !["start"] = "returned"]
            /\ nStartRet' = "nil"
            /\ UNCHANGED <<nCh, nBatch, nRecv, nRet>>
       [] case = "event" ->
            /\ Len(nCh) > 0
            /\ nCh' = Tail(nCh)
            /\ nRecv' = nRecv \cup {Head(nCh)}
            /\ nBatch' = NatsEnqueue(Head(nCh)).batch
            /\ npc' = [npc EXCEPT !["start"] =
                         IF NatsEnqueue(Head(nCh)).full THEN "swap" ELSE "select"]
            /\ nRet' = [nRet EXCEPT !["start"] = "select"]
            /\ nStartRet' = nStartRet
  /\ UNCHANGED <<nChClosed, nSent, nCtxDone, nBatchSize, nLocal, nPublished>>

\* the select of Start's loop: the cancelled context or the closed channel
\* lead to the last flush and the return; an event is enqueued, and flush
\* is called if it filled the batch
NatsStartSelect(case) ==
  /\ npc["start"] = "select"
  /\ CASE case = "done" ->
            /\ nCtxDone
            /\ npc' = [npc EXCEPT !["start"] = "swap"]
            /\ nRet' = [nRet EXCEPT !["start"] = "returned"]
            /\ nStartRet' = "ctx"
            /\ UNCHANGED <<nCh, nBatch, nRecv>>
       [] case = "closed" ->
            /\ nChClosed /\ Len(nCh) = 0
            /\ npc' = [npc EXCEPT !["start"] = "swap"]
            /\ nRet' = [nRet EXCEPT !["start"] = "returned"]
            /\ nStartRet' = "nil"
            /\ UNCHANGED <<nCh, nBatch, nRecv>>
       [] case = "event" ->
            /\ Len(nCh) > 0
            /\ nCh' = Tail(nCh)
            /\ nRecv' = nRecv \cup {Head(nCh)}
            /\ nBatch' = NatsEnqueue(Head(nCh)).batch
            /\ npc' = [npc EXCEPT !["start"] =
                         IF NatsEnqueue(Head(nCh)).full THEN "swap" ELSE "select"]
            /\ nRet' = [nRet EXCEPT !["start"] = "select"]
            /\ nStartRet' = nStartRet
  /\ UNCHANGED <<nChClosed, nSent, nCtxDone, nBatchSize, nLocal, nPublished>>

\* NATSExporter.flush under e.mu: an empty batch returns, any other is
\* swapped for a new one
NatsFlushSwap(t) ==
  /\ npc[t] = "swap"
  /\ IF Len(nBatch) = 0
       THEN /\ npc' = [npc EXCEPT ![t] = nRet[t]]
            /\ UNCHANGED <<nBatch, nLocal>>
       ELSE /\ nLocal' = [nLocal EXCEPT ![t] = nBatch]
            /\ nBatch' = <<>>
            /\ npc' = [npc EXCEPT ![t] = "publish"]
  /\ UNCHANGED <<nCh, nChClosed, nSent, nCtxDone, nBatchSize, nRet, nStartRet, nRecv,
                 nPublished>>

\* NATSExporter.flush after the swap: nc.Publish for every payload of the
\* swapped batch, in order, then nc.Flush
NatsFlushPublish(t) ==
  /\ npc[t] = "publish"
  /\ nPublished' = nPublished \o nLocal[t]
  /\ nLocal' = [nLocal EXCEPT ![t] = <<>>]
  /\ npc' = [npc EXCEPT ![t] = nRet[t]]
  /\ UNCHANGED <<nCh, nChClosed, nSent, nCtxDone, nBatchSize, nBatch, nRet, nStartRet, nRecv>>

\* NATSExporter.flusher: the select takes a tick and calls flush, or sees
\* the cancelled context and returns
NatsFlusherSelect(tick) ==
  /\ npc["flusher"] = "select"
  /\ ~tick => nCtxDone
  /\ npc' = [npc EXCEPT !["flusher"] = IF tick THEN "swap" ELSE "done"]
  /\ nRet' = [nRet EXCEPT !["flusher"] = "select"]
  /\ UNCHANGED <<nCh, nChClosed, nSent, nCtxDone, nBatchSize, nBatch, nLocal, nStartRet,
                 nRecv, nPublished>>

\* NATSExporter.Stop, called by Run during shutdown: flush, then drain the
\* connection
NatsStop ==
  /\ npc["stop"] = "off"
  /\ nCtxDone
  /\ npc' = [npc EXCEPT !["stop"] = "swap"]
  /\ nRet' = [nRet EXCEPT !["stop"] = "done"]
  /\ UNCHANGED <<nCh, nChClosed, nSent, nCtxDone, nBatchSize, nBatch, nLocal, nStartRet,
                 nRecv, nPublished>>

\* no NATS exporter is registered
NatsIdle == NewNATSExporter(1)

\* ------------------------------------------------------ Prometheus exporter
NoProbe == [code |-> 0, reached |-> FALSE, stopped |-> FALSE]

\* NewPrometheus(addr, bus, logger), before Start
NewPrometheus ==
  /\ pReady = FALSE
  /\ pServer = "nil"
  /\ pCtxDone = FALSE
  /\ ppc = [start |-> "new", stats |-> "off"]
  /\ pBusDropped = 0
  /\ pCounter = 0
  /\ pStopCalled = FALSE
  /\ pProbe = NoProbe
  /\ pSnap = -1

\* the context of Start is cancelled
PromCancel ==
  /\ ~pCtxDone
  /\ pCtxDone' = TRUE
  /\ UNCHANGED <<pReady, pServer, ppc, pBusDropped, pCounter, pStopCalled, pProbe, pSnap>>

\* Start up to go p.collectBusStats(ctx): the handlers are registered, the
\* server is made and listens, the stats collector runs
PromStartServe ==
  /\ ppc.start = "new"
  /\ pServer' = "listening"
  /\ ppc' = [start |-> "serve", stats |-> "select"]
  /\ UNCHANGED <<pReady, pCtxDone, pBusDropped, pCounter, pStopCalled, pProbe, pSnap>>

\* Start: p.ready.Store(true), then the consumption loop
PromStartReady ==
  /\ ppc.start = "serve"
  /\ pReady' = TRUE
  /\ ppc' = [ppc EXCEPT !.start = "loop"]
  /\ UNCHANGED <<pServer, pCtxDone, pBusDropped, pCounter, pStopCalled, pProbe, pSnap>>

\* Start's loop sees the cancelled context and returns
PromStartReturn ==
  /\ ppc.start = "loop"
  /\ pCtxDone
  /\ ppc' = [ppc EXCEPT !.start = "returned"]
  /\ UNCHANGED <<pReady, pServer, pCtxDone, pBusDropped, pCounter, pStopCalled, pProbe, pSnap>>

\* Stop(ctx), called by Run during shutdown: ready is cleared and the
\* server, if Start has made one, is shut down
PromStop ==
  /\ pCtxDone
  /\ ~pStopCalled
  /\ pStopCalled' = TRUE
  /\ pReady' = FALSE
  /\ pServer' = IF pServer = "nil" THEN "nil" ELSE "shutdown"
  /\ UNCHANGED <<pCtxDone, ppc, pBusDropped, pCounter, pProbe, pSnap>>

\* SetReady()
PromSetReady ==
  /\ pReady' = TRUE
  /\ UNCHANGED <<pServer, pCtxDone, ppc, pBusDropped, pCounter, pStopCalled, pProbe, pSnap>>

\* the /readyz handler answers a request
PromReadyz ==
  /\ pServer = "listening"
  /\ pProbe' = [code |-> IF pReady THEN 200 ELSE 503,
                 reached |-> ppc.start \in {"loop", "returned"},
                 stopped |-> pStopCalled]
  /\ UNCHANGED <<pReady, pServer, pCtxDone, ppc, pBusDropped, pCounter, pStopCalled, pSnap>>

\* Bus.Publish drops an event for the subscriber: its counter grows by one
PromBusDrop ==
  /\ pBusDropped < MaxDrop
  /\ pBusDropped' = pBusDropped + 1
  /\ UNCHANGED <<pReady, pServer, pCtxDone, ppc, pCounter, pStopCalled, pProbe, pSnap>>

\* collectBusStats: the select takes a tick, reads bus.Stats() and adds
\* the subscriber's dropped count to the counter, or sees the cancelled
\* context and returns
PromCollect(tick) ==
  /\ ppc.stats = "select"
  /\ ~tick => pCtxDone
  /\ IF tick
       THEN /\ pCounter < MaxSample * MaxDrop
            /\ pCounter' = pCounter + pBusDropped
            /\ pSnap' = pBusDropped
            /\ ppc' = ppc
       ELSE /\ ppc' = [ppc EXCEPT !.stats = "done"]
            /\ UNCHANGED <<pCounter, pSnap>>
  /\ UNCHANGED <<pReady, pServer, pCtxDone, pBusDropped, pStopCalled, pProbe>>

\* no Prometheus exporter runs
PromIdle == NewPrometheus

\* ---------------------------------------------------------- TruncateDomain
\* a domain name is a sequence of characters
Chars == {"a", "b", "."}
Unknown == <<"u", "n", "k", "n", "o", "w", "n">>

RECURSIVE Split(_)
\* strings.Split(s, ".")
Split(s) ==
  IF \A i \in 1..Len(s) : s[i] # "."
    THEN <<s>>
    ELSE LET i == CHOOSE k \in 1..Len(s) : s[k] = "." /\ \A j \in 1..(k - 1) : s[j] # "."
         IN <<SubSeq(s, 1, i - 1)>> \o Split(SubSeq(s, i + 1, Len(s)))

RECURSIVE Join(_)
\* strings.Join(parts, "."), for at least one part
Join(parts) ==
  IF Len(parts) = 1 THEN parts[1] ELSE parts[1] \o <<".">> \o Join(Tail(parts))

\* DnsTruncateDomain that drops the first label only
DnsTruncateDomain_DropFirst(domain) ==
  LET parts == Split(domain)
  IN IF Len(parts) <= 2 THEN domain ELSE Join(Tail(parts))

\* TruncateDomain of the dns probe
DnsTruncateDomain(domain) ==
  LET parts == Split(domain)
  IN IF Len(parts) <= 2 THEN domain ELSE Join(SubSeq(parts, Len(parts) - 1, Len(parts)))

RECURSIVE SplitLoop(_, _, _, _)
\* the loop of splitDomainLabels from index i on (indices from 1)
SplitLoop(domain, i, start, labels) ==
  IF i > Len(domain)
    THEN IF start <= Len(domain)
           THEN Append(labels, SubSeq(domain, start, Len(domain)))
           ELSE labels
    ELSE IF domain[i] = "."
      THEN SplitLoop(domain, i + 1, i + 1,
                     IF i > start THEN Append(labels, SubSeq(domain, start, i - 1)) ELSE labels)
      ELSE SplitLoop(domain, i + 1, start, labels)

splitDomainLabels(domain) == SplitLoop(domain, 1, 1, <<>>)

\* TruncateDomain of the metrics package
TruncateDomain(domain) ==
  IF domain = <<>>
    THEN Unknown
    ELSE LET labels == splitDomainLabels(domain)
         IN IF Len(labels) <= 2
              THEN domain
              ELSE labels[Len(labels) - 1] \o <<".">> \o labels[Len(labels)]

\* every domain name of at most n characters
Domains(n) == UNION {[1..k -> Chars] : k \in 0..n}

\* a caller holds the domain name x
TruncNew(x) ==
  /\ tIn = x
  /\ tDns = <<>>
  /\ tMet = <<>>
  /\ tLabels = EmptyMap

\* dns Module.Start: the labels it sets on the event of a record whose
\* question name is qname
DnsLabels(qname) == [qname |-> qname, domain |-> DnsTruncateDomain(qname)]

\* the caller applies both implementations to its domain name
TruncOnce ==
  /\ Len(tDns) = 0
  /\ tDns' = <<DnsTruncateDomain(tIn)>>
  /\ tMet' = <<TruncateDomain(tIn)>>
  /\ tLabels' = DnsLabels(tIn)
  /\ tIn' = tIn

\* the caller applies each implementation to its own result
TruncTwice ==
  /\ Len(tDns) = 1
  /\ tDns' = Append(tDns, DnsTruncateDomain(tDns[1]))
  /\ tMet' = Append(tMet, TruncateDomain(tMet[1]))
  /\ UNCHANGED <<tIn, tLabels>>

TruncIdle == TruncNew(<<>>)

\* ------------------------------------------------------ extractContainerID
\* a string is a sequence of characters
Chr(str) ==
  CASE str = "crio-" -> <<"c", "r", "i", "o", "-">>
    [] str = "containerd://" ->
         <<"c", "o", "n", "t", "a", "i", "n", "e", "r", "d", ":", "/", "/">>
    [] str = "0::" -> <<"0", ":", ":">>
    [] str = "1:x:" -> <<"1", ":", "x", ":">>
    [] str = "x:" -> <<"x", ":">>
    [] str = "/x" -> <<"/", "x">>
    [] str = "/a" -> <<"/", "a">>
    [] str = "/" -> <<"/">>
    [] str = "" -> <<>>

\* the characters [a-f0-9]
HexChars == {"a", "b", "c", "d", "e", "f", "0", "1", "2", "3", "4", "5", "6", "7", "8", "9"}

RECURSIVE SplitOn(_, _)
\* strings.Split(s, c) for a one-character separator c
SplitOn(s, c) ==
  IF \A i \in 1..Len(s) : s[i] # c
    THEN <<s>>
    ELSE LET i == CHOOSE k \in 1..Len(s) : s[k] = c /\ \A j \in 1..(k - 1) : s[j] # c
         IN <<SubSeq(s, 1, i - 1)>> \o SplitOn(SubSeq(s, i + 1, Len(s)), c)

\* the pattern prefix[a-f0-9]{64} matches p at position i
MatchesAt(p, i, prefix) ==
  /\ i + Len(prefix) + HexLen - 1 <= Len(p)
  /\ SubSeq(p, i, i + Len(prefix) - 1) = prefix
  /\ \A j \in (i + Len(prefix))..(i + Len(prefix) + HexLen - 1) : p[j] \in HexChars

\* re.FindStringSubmatch(p) for the pattern prefix([a-f0-9]{64}): the id of
\* the leftmost match, <<>> without a match
FindId(p, prefix) ==
  IF \E i \in 1..Len(p) : MatchesAt(p, i, prefix)
    THEN LET i == CHOOSE k \in 1..Len(p) :
                    MatchesAt(p, k, prefix) /\ \A j \in 1..(k - 1) : ~MatchesAt(p, j, prefix)
         IN SubSeq(p, i + Len(prefix), i + Len(prefix) + HexLen - 1)
    ELSE <<>>

\* the literal part of each pattern of containerIDRegexps, in its order
containerIDRegexps == <<Chr(""), Chr("crio-"), Chr("containerd://")>>

\* the first pattern of res that matches p gives the id
FirstMatch(p, res) ==
  IF \E k \in 1..Len(res) : FindId(p, res[k]) # <<>>
    THEN FindId(p, res[CHOOSE k \in 1..Len(res) :
                        FindId(p, res[k]) # <<>> /\ \A j \in 1..(k - 1) : FindId(p, res[j]) = <<>>])
    ELSE <<>>

\* extractContainerID(line)
extractContainerID(line) ==
  LET parts == SplitOn(line, ":")
  IN IF Len(parts) < 3 THEN <<>> ELSE FirstMatch(parts[3], containerIDRegexps)

\* container ids, path segments and cgroup lines tried
Ids == [1..HexLen -> {"a", "7"}]
Segments ==
  {Chr("/x"), Chr("/a")}
    \cup {Chr("/") \o prefix \o id : prefix \in {Chr(""), Chr("crio-"), Chr("containerd://")},
                                      id \in Ids}

RECURSIVE Paths(_)
Paths(n) ==
  IF n = 0 THEN {<<>>} ELSE Paths(n - 1) \cup {p \o g : p \in Paths(n - 1), g \in Segments}

Lines == {f \o p : f \in {Chr(""), Chr("x:"), Chr("0::"), Chr("1:x:")}, p \in Paths(MaxSeg)}

NotCalled == <<"?">>

\* ------------------------------------------------------- DropReasonString
\* constants.DropReasons
DropReasons ==
  (2 :> "NOT_SPECIFIED") @@ (3 :> "NO_SOCKET") @@ (4 :> "PKT_TOO_SMALL") @@ (5 :> "TCP_CSUM")
    @@ (6 :> "SOCKET_FILTER") @@ (7 :> "UDP_CSUM") @@ (16 :> "NETFILTER_DROP")
    @@ (17 :> "OTHERHOST") @@ (27 :> "QUEUE_PURGE")

Digit(d) ==
  CASE d = 0 -> "0" [] d = 1 -> "1" [] d = 2 -> "2" [] d = 3 -> "3" [] d = 4 -> "4"
    [] d = 5 -> "5" [] d = 6 -> "6" [] d = 7 -> "7" [] d = 8 -> "8" [] d = 9 -> "9"

RECURSIVE Decimal(_)
\* fmt.Sprintf("%d", n) for an unsigned n, as a sequence of digits
Decimal(n) == IF n < 10 THEN <<Digit(n)>> ELSE Append(Decimal(n \div 10), Digit(n % 10))

\* DropReasonString that has no name for a code outside the table
DropReasonString_NoFallback(reason) ==
  IF reason \in DOMAIN DropReasons THEN <<DropReasons[reason]>> ELSE <<>>

\* DropReasonString(reason): a string is a sequence of pieces, the table's
\* name or "REASON_" followed by the digits of reason
DropReasonString(reason) ==
  IF reason \in DOMAIN DropReasons
    THEN <<DropReasons[reason]>>
    ELSE <<"REASON_">> \o Decimal(reason)

\* the reason codes tried (uint32)
Codes == 0..MaxCode \cup {99, 2147483647}

\* a caller holds a cgroup line and a drop reason code
FnNew(line, code) ==
  /\ gLine = line
  /\ gId = NotCalled
  /\ dCode = code
  /\ dReason = NotCalled

\* the caller extracts the container id of its line
ExtractCall ==
  /\ gId = NotCalled
  /\ gId' = extractContainerID(gLine)
  /\ UNCHANGED <<gLine, dCode, dReason>>

\* the caller names its drop reason code
DropReasonCall ==
  /\ dReason = NotCalled
  /\ dReason' = DropReasonString(dCode)
  /\ UNCHANGED <<gLine, gId, dCode>>

FnIdle == FnNew(<<>>, 0)

ExtIdle == ConsIdle /\ NatsIdle /\ PromIdle /\ TruncIdle /\ FnIdle

\* -------------------------------------------------- bus-level specification
\* Any goroutine may call Publish, Subscribe, Close and receive, in any order.

RtIdle ==
  /\ ctxDone = FALSE
  /\ isRoot = TRUE
  /\ enabled = [m \in ModSet |-> TRUE]
  /\ initialized = <<>>
  /\ rtIdx = 0
  /\ readerOpen = [m \in ModSet |-> FALSE]
  /\ events = [e \in ExpSet |-> 0]
  /\ nread = 0
  /\ rtlog = <<>>
  /\ stopTimedOut = FALSE
  /\ objs = [m \in ModSet |-> FALSE]
  /\ links = [m \in ModSet |-> 0]
  /\ lifecycle = [m \in ModSet |-> [init |-> -1, start |-> 0, stop |-> 0]]
  /\ startRet = [m \in ModSet |-> "none"]
  /\ moduleErrors = [m \in ModSet |-> 0]

Init ==
  /\ \E size \in 1..MaxBuf : NewBus(size)
  /\ panic = "none"
  /\ pc = [t \in Threads |-> IF t \in Closers THEN "close"
                             ELSE IF t \in ModSet THEN "pub" ELSE "idle"]
  /\ todo = [t \in ModSet |-> {}]
  /\ seq = [t \in ModSet |-> 0]
  /\ pubCalls = [t \in ModSet |-> 0]
  /\ hb = {}
  /\ lateCalls = 0
  /\ RtIdle
  /\ PoolIdle
  /\ CacheIdle
  /\ ExtIdle

Next ==
  \/ \E t \in ModSet : Calls < MaxPub /\ PublishCheck(t, "pub") /\ UNCHANGED rtVars /\ UNCHANGED libVars
  \/ \E t \in ModSet : PublishRLock(t) /\ UNCHANGED rtVars /\ UNCHANGED libVars
  \/ \E t \in ModSet : PublishSend(t) /\ UNCHANGED rtVars /\ UNCHANGED libVars
  \/ \E t \in ModSet : PublishReturn(t, "pub") /\ UNCHANGED rtVars /\ UNCHANGED libVars
  \/ \E name \in ExpSet : Subscribe(name) /\ UNCHANGED <<procVars, pubCalls, hb, lateCalls, rtVars>> /\ UNCHANGED libVars
  \/ \E t \in Closers : CloseSwap(t, "done") /\ UNCHANGED rtVars /\ UNCHANGED libVars
  \/ \E t \in Closers : CloseLocked(t, "done") /\ UNCHANGED rtVars /\ UNCHANGED libVars
  \/ \E ch \in 1..MaxChans : Receive(ch) /\ UNCHANGED rtVars /\ UNCHANGED libVars

Spec == Init /\ [][Next]_vars

\* ---------------------------------------------------------------- Module
\* probes a module attaches in Init (tcp: tcp_connect and tcp_close kprobes;
\* dns: the udp_sendmsg kprobe)
NLinks == [m \in ModSet |-> IF m = "tcp" THEN 2 ELSE 1]

\* the steps of Module.Init that can fail: 1 is loadBpfObjects, 2..NLinks+1
\* the link attachments in order, NLinks+2 is ringbuf.NewReader
InitSteps(m) == 1..(NLinks[m] + 2)

\* Module.Stop on the resources r a module holds: the reader is closed if it
\* is not nil, every link in m.links is closed, m.objs is closed
ModuleStop(r) == [objs |-> FALSE, links |-> 0, reader |-> FALSE]

\* ModuleInit that returns the error without calling Stop
ModuleInit_NoCleanup(m, failAt) ==
  [objs |-> failAt = 0 \/ failAt > 1,
   links |-> IF failAt = 0 THEN NLinks[m] ELSE IF failAt = 1 THEN 0 ELSE failAt - 2,
   reader |-> failAt = 0]

\* Module.Init: the resources the module holds when Init returns.  failAt = 0
\* is success; otherwise the step failAt fails: a failed loadBpfObjects has
\* acquired nothing and returns, every later failure calls m.Stop before it
\* returns the error.
ModuleInit(m, failAt) ==
  LET acquired ==
        [objs |-> failAt = 0 \/ failAt > 1,
         links |-> IF failAt = 0 THEN NLinks[m] ELSE IF failAt = 1 THEN 0 ELSE failAt - 2,
         reader |-> failAt = 0]
  IN IF failAt <= 1 THEN acquired ELSE ModuleStop(acquired)

\* Module.Start, top of the loop:  select { case <-ctx.Done(): return; default: }
ModSelect(m) ==
  /\ panic = "none"
  /\ pc[m] = "select"
  /\ pc' = [pc EXCEPT ![m] = IF ctxDone THEN "returned" ELSE "read"]
  /\ startRet' = IF ctxDone THEN [startRet EXCEPT ![m] = "ctx.Err"] ELSE startRet
  /\ UNCHANGED <<busVars, histVars, panic, todo, seq>>
  /\ UNCHANGED <<ctxDone, isRoot, enabled, initialized, rtIdx, readerOpen, events, nread, rtlog>>
  /\ UNCHANGED <<stopTimedOut, objs, links, lifecycle, moduleErrors>>

\* ModRead that takes ErrClosed for a transient error and continues
ModRead_ClosedIsTransient(m) ==
  /\ panic = "none"
  /\ pc[m] = "read"
  /\ startRet' = startRet
  /\ \/ /\ readerOpen[m]
        /\ nread < MaxRec
        /\ nread' = nread + 1
        /\ \E parsed \in BOOLEAN :
             pc' = [pc EXCEPT ![m] = IF parsed THEN "pub" ELSE "select"]
     \/ /\ pc' = [pc EXCEPT ![m] = "select"]
        /\ nread' = nread
  /\ UNCHANGED <<busVars, histVars, panic, todo, seq>>
  /\ UNCHANGED <<ctxDone, isRoot, enabled, initialized, rtIdx, readerOpen, events, rtlog>>
  /\ UNCHANGED <<stopTimedOut, objs, links, lifecycle, moduleErrors>>

\* Module.Start:  record, err := m.reader.Read()  and the decoding of the
\* record.  A closed reader gives ErrClosed and Start returns nil.  Otherwise
\* Read blocks until the kernel has a record, or fails with a transient
\* error (warn, continue).  A record that binary.Read cannot parse is warned
\* about and skipped; a parsed one is made into an event and the module is
\* about to call m.deps.EventBus.Publish(e).
ModRead(m) ==
  /\ panic = "none"
  /\ pc[m] = "read"
  /\ IF ~readerOpen[m]
       THEN /\ pc' = [pc EXCEPT ![m] = "returned"]
            /\ startRet' = [startRet EXCEPT ![m] = "nil"]
            /\ nread' = nread
       ELSE /\ startRet' = startRet
            /\ \/ /\ nread < MaxRec
                  /\ nread' = nread + 1
                  /\ \E parsed \in BOOLEAN :
                       pc' = [pc EXCEPT ![m] = IF parsed THEN "pub" ELSE "select"]
               \/ /\ pc' = [pc EXCEPT ![m] = "select"]
                  /\ nread' = nread
  /\ UNCHANGED <<busVars, histVars, panic, todo, seq>>
  /\ UNCHANGED <<ctxDone, isRoot, enabled, initialized, rtIdx, readerOpen, events, rtlog>>
  /\ UNCHANGED <<stopTimedOut, objs, links, lifecycle, moduleErrors>>

\* -------------------------------------------------------------- Exporters
\* Prometheus.Start up to its loop: HTTP server, stats collector, ready
PrometheusStart ==
  /\ panic = "none"
  /\ pc["prometheus"] = "start"
  /\ pc' = [pc EXCEPT !["prometheus"] = "consume"]
  /\ UNCHANGED <<busVars, histVars, rtVars, panic, todo, seq>>

\* NATSExporter.Start up to Subscribe: nats.Connect, jetstream.New and
\* CreateOrUpdateStream each return the error they get
NATSConnect ==
  /\ panic = "none"
  /\ pc["nats"] = "start"
  /\ \E ok \in BOOLEAN :
       pc' = [pc EXCEPT !["nats"] = IF ok THEN "subscribe" ELSE "returned"]
  /\ UNCHANGED <<busVars, histVars, rtVars, panic, todo, seq>>

\* NATSExporter.Start:  e.events = e.bus.Subscribe("nats")
NATSSubscribe ==
  /\ pc["nats"] = "subscribe"
  /\ Subscribe("nats")
  /\ events' = [events EXCEPT !["nats"] = Len(chans) + 1]
  /\ pc' = [pc EXCEPT !["nats"] = "consume"]
  /\ UNCHANGED <<panic, todo, seq, pubCalls, hb, lateCalls>>
  /\ UNCHANGED <<ctxDone, isRoot, enabled, initialized, rtIdx, readerOpen, nread, rtlog, stopTimedOut, objs, links, lifecycle, startRet, moduleErrors>>

\* Exporter Start loop:  case evt, ok := <-e.events  with ok: process it
ExporterReceive(e) ==
  /\ pc[e] = "consume"
  /\ Receive(events[e])
  /\ UNCHANGED rtVars

\* Exporter Start loop:  case <-ctx.Done(): return,  or  evt, ok := <-e.events
\* with !ok (channel closed and drained): return
ExporterReturn(e) ==
  /\ panic = "none"
  /\ pc[e] = "consume"
  /\ \/ ctxDone
     \/ chans[events[e]].closed /\ chans[events[e]].buf = <<>>
  /\ pc' = [pc EXCEPT ![e] = "returned"]
  /\ UNCHANGED <<busVars, histVars, rtVars, panic, todo, seq>>

\* ---------------------------------------------------------------- Runtime
\* the context of Run is cancelled (SIGINT, SIGTERM)
Cancel ==
  /\ panic = "none"
  /\ ~ctxDone
  /\ pc[RunThread] \notin {"done", "failed"}
  /\ ctxDone' = TRUE
  /\ UNCHANGED <<busVars, procVars, histVars>>
  /\ UNCHANGED <<isRoot, enabled, initialized, rtIdx, readerOpen, events, nread, rtlog, stopTimedOut, objs, links, lifecycle, startRet, moduleErrors>>

\* Run: pre-flight: os.Geteuid() != 0 returns an error
RunPreflight ==
  /\ panic = "none"
  /\ pc[RunThread] = "preflight"
  /\ pc' = [pc EXCEPT ![RunThread] = IF isRoot THEN "init" ELSE "failed"]
  /\ rtIdx' = 1
  /\ UNCHANGED <<busVars, histVars, panic, todo, seq>>
  /\ UNCHANGED <<ctxDone, isRoot, enabled, initialized, readerOpen, events, nread, rtlog, stopTimedOut, objs, links, lifecycle, startRet, moduleErrors>>

\* RunInit that calls Init on every registered module, enabled or not
RunInit_IgnoreEnabled ==
  /\ panic = "none"
  /\ pc[RunThread] = "init"
  /\ rtIdx <= Len(Mods)
  /\ LET m == Mods[rtIdx] IN
     \E failAt \in {0} \cup InitSteps(m) :
       LET r == ModuleInit(m, failAt) IN
       /\ lifecycle' = [lifecycle EXCEPT ![m].init = failAt]
       /\ objs' = [objs EXCEPT ![m] = r.objs]
       /\ links' = [links EXCEPT ![m] = r.links]
       /\ readerOpen' = [readerOpen EXCEPT ![m] = r.reader]
       /\ IF failAt = 0
            THEN /\ initialized' = Append(initialized, m)
                 /\ pc' = [pc EXCEPT ![m] = "ready"]
            ELSE UNCHANGED <<initialized, pc>>
  /\ rtIdx' = rtIdx + 1
  /\ UNCHANGED <<busVars, histVars, panic, todo, seq>>
  /\ UNCHANGED <<ctxDone, isRoot, enabled, events, nread, rtlog, stopTimedOut, startRet, moduleErrors>>

\* Run: one iteration of the init loop over rt.modules: a module disabled in
\* the config is skipped; m.Init either fails at one of its steps (skipped) or
\* succeeds (appended to initialized, its ring-buffer reader open)
RunInit ==
  /\ panic = "none"
  /\ pc[RunThread] = "init"
  /\ rtIdx <= Len(Mods)
  /\ LET m == Mods[rtIdx] IN
     IF ~enabled[m]
       THEN UNCHANGED <<initialized, readerOpen, pc, objs, links, lifecycle>>
       ELSE \E failAt \in {0} \cup InitSteps(m) :
              LET r == ModuleInit(m, failAt) IN
              /\ lifecycle' = [lifecycle EXCEPT ![m].init = failAt]
              /\ objs' = [objs EXCEPT ![m] = r.objs]
              /\ links' = [links EXCEPT ![m] = r.links]
              /\ readerOpen' = [readerOpen EXCEPT ![m] = r.reader]
              /\ IF failAt = 0
                   THEN /\ initialized' = Append(initialized, m)
                        /\ pc' = [pc EXCEPT ![m] = "ready"]
                   ELSE UNCHANGED <<initialized, pc>>
  /\ rtIdx' = rtIdx + 1
  /\ UNCHANGED <<busVars, histVars, panic, todo, seq>>
  /\ UNCHANGED <<ctxDone, isRoot, enabled, events, nread, rtlog, stopTimedOut, startRet, moduleErrors>>

\* RunStart without the check that a module was initialized
RunStart_NoCheck ==
  /\ panic = "none"
  /\ pc[RunThread] = "init"
  /\ rtIdx > Len(Mods)
  /\ pc' = [t \in Threads |->
               IF t = RunThread THEN "wait"
               ELSE IF t \in ExpSet THEN "start"
               ELSE IF t \in Range(initialized) THEN "select"
               ELSE pc[t]]
  /\ lifecycle' = [m \in ModSet |->
                     IF m \in Range(initialized)
                       THEN [lifecycle[m] EXCEPT !.start = @ + 1]
                       ELSE lifecycle[m]]
  /\ UNCHANGED <<busVars, histVars, panic, todo, seq>>
  /\ UNCHANGED <<ctxDone, isRoot, enabled, initialized, rtIdx, readerOpen, events, nread, rtlog>>
  /\ UNCHANGED <<stopTimedOut, objs, links, startRet, moduleErrors>>

\* Run: after the init loop: no module initialized is an error; otherwise
\* go e.Start(ctx) for every exporter, go m.Start(ctx) for every initialized
\* module
RunStart ==
  /\ panic = "none"
  /\ pc[RunThread] = "init"
  /\ rtIdx > Len(Mods)
  /\ IF initialized = <<>>
       THEN /\ pc' = [pc EXCEPT ![RunThread] = "failed"]
            /\ lifecycle' = lifecycle
       ELSE /\ pc' = [t \in Threads |->
                        IF t = RunThread THEN "wait"
                        ELSE IF t \in ExpSet THEN "start"
                        ELSE IF t \in Range(initialized) THEN "select"
                        ELSE pc[t]]
            /\ lifecycle' = [m \in ModSet |->
                              IF m \in Range(initialized)
                                THEN [lifecycle[m] EXCEPT !.start = @ + 1]
                                ELSE lifecycle[m]]
  /\ UNCHANGED <<busVars, histVars, panic, todo, seq>>
  /\ UNCHANGED <<ctxDone, isRoot, enabled, initialized, rtIdx, readerOpen, events, nread, rtlog>>
  /\ UNCHANGED <<stopTimedOut, objs, links, startRet, moduleErrors>>

\* RunWait that goes straight to rt.bus.Close(), before the modules are stopped
RunWait_CloseFirst ==
  /\ panic = "none"
  /\ pc[RunThread] = "wait"
  /\ ctxDone
  /\ pc' = [pc EXCEPT ![RunThread] = "close"]
  /\ rtIdx' = 1
  /\ UNCHANGED <<busVars, histVars, panic, todo, seq>>
  /\ UNCHANGED <<ctxDone, isRoot, enabled, initialized, readerOpen, events, nread, rtlog, stopTimedOut, objs, links, lifecycle, startRet, moduleErrors>>

\* Run:  <-ctx.Done()
RunWait ==
  /\ panic = "none"
  /\ pc[RunThread] = "wait"
  /\ ctxDone
  /\ pc' = [pc EXCEPT ![RunThread] = "stop"]
  /\ rtIdx' = 1
  /\ UNCHANGED <<busVars, histVars, panic, todo, seq>>
  /\ UNCHANGED <<ctxDone, isRoot, enabled, initialized, readerOpen, events, nread, rtlog, stopTimedOut, objs, links, lifecycle, startRet, moduleErrors>>

\* the deadline of stopCtx, made by context.WithTimeout(ShutdownTimeout) after
\* <-ctx.Done(), passes while Run is shutting down
StopTimeout ==
  /\ panic = "none"
  /\ pc[RunThread] \in {"stop", "stopping", "close", "close_lock", "stop_exp"}
  /\ ~stopTimedOut
  /\ stopTimedOut' = TRUE
  /\ UNCHANGED <<busVars, procVars, histVars>>
  /\ UNCHANGED <<ctxDone, isRoot, enabled, initialized, rtIdx, readerOpen, events, nread, rtlog>>
  /\ UNCHANGED <<objs, links, lifecycle, startRet, moduleErrors>>

\* Module.Stop, called by Run's stop loop for initialized[rtIdx]:
\* m.reader.Close(), links and objects closed
RunStopModule ==
  /\ panic = "none"
  /\ pc[RunThread] = "stop"
  /\ rtIdx <= Len(initialized)
  /\ LET m == initialized[rtIdx]
         r == ModuleStop([objs |-> objs[m], links |-> links[m], reader |-> readerOpen[m]])
     IN /\ readerOpen' = [readerOpen EXCEPT ![m] = r.reader]
        /\ objs' = [objs EXCEPT ![m] = r.objs]
        /\ links' = [links EXCEPT ![m] = r.links]
        /\ lifecycle' = [lifecycle EXCEPT ![m].stop = @ + 1]
  /\ rtlog' = Append(rtlog, <<"Stop", initialized[rtIdx]>>)
  /\ pc' = [pc EXCEPT ![RunThread] = "stopping"]
  /\ UNCHANGED <<busVars, histVars, panic, todo, seq>>
  /\ UNCHANGED <<ctxDone, isRoot, enabled, initialized, rtIdx, events, nread, stopTimedOut, startRet, moduleErrors>>

\* Module.Stop returns; Run goes on to the next module, or after the last to
\* rt.bus.Close()
RunStopReturn ==
  /\ panic = "none"
  /\ pc[RunThread] = "stopping"
  /\ rtlog' = Append(rtlog, <<"StopRet", initialized[rtIdx]>>)
  /\ rtIdx' = rtIdx + 1
  /\ pc' = [pc EXCEPT ![RunThread] =
              IF rtIdx = Len(initialized) THEN "close" ELSE "stop"]
  /\ UNCHANGED <<busVars, histVars, panic, todo, seq>>
  /\ UNCHANGED <<ctxDone, isRoot, enabled, initialized, readerOpen, events, nread, stopTimedOut, objs, links, lifecycle, startRet, moduleErrors>>

\* Run:  rt.bus.Close(), entry
RunClose ==
  /\ CloseSwap(RunThread, "stop_exp")
  /\ rtlog' = Append(rtlog, <<"Close", "bus">>)
  /\ rtIdx' = 1
  /\ UNCHANGED <<ctxDone, isRoot, enabled, initialized, readerOpen, events, nread, stopTimedOut, objs, links, lifecycle, startRet, moduleErrors>>

\* Run:  rt.bus.Close(), locked section and return
RunCloseReturn ==
  /\ CloseLocked(RunThread, "stop_exp")
  /\ rtlog' = IF panic' = "none" THEN Append(rtlog, <<"CloseRet", "bus">>) ELSE rtlog
  /\ UNCHANGED <<ctxDone, isRoot, enabled, initialized, rtIdx, readerOpen, events, nread, stopTimedOut, objs, links, lifecycle, startRet, moduleErrors>>

\* Run: one iteration of the exporter stop loop: e.Stop(stopCtx)
RunStopExporter ==
  /\ panic = "none"
  /\ pc[RunThread] = "stop_exp"
  /\ rtIdx <= Len(Exps)
  /\ rtlog' = Append(rtlog, <<"ExpStop", Exps[rtIdx]>>)
  /\ rtIdx' = rtIdx + 1
  /\ UNCHANGED <<busVars, procVars, histVars>>
  /\ UNCHANGED <<ctxDone, isRoot, enabled, initialized, readerOpen, events, nread, stopTimedOut, objs, links, lifecycle, startRet, moduleErrors>>

\* Run:  wg.Wait(); return nil
RunReturn ==
  /\ panic = "none"
  /\ pc[RunThread] = "stop_exp"
  /\ rtIdx > Len(Exps)
  /\ \A t \in ExpSet \cup Range(initialized) : pc[t] = "returned"
  /\ pc' = [pc EXCEPT ![RunThread] = "done"]
  /\ rtlog' = Append(rtlog, <<"Return", "run">>)
  /\ UNCHANGED <<busVars, histVars, panic, todo, seq>>
  /\ UNCHANGED <<ctxDone, isRoot, enabled, initialized, rtIdx, readerOpen, events, nread, stopTimedOut, objs, links, lifecycle, startRet, moduleErrors>>

\* main: NewRuntime(cfg) makes the bus, NewPrometheus subscribes "prometheus";
\* the modules and both exporters are registered; Run has not started
RtInit ==
  /\ \E size \in 1..MaxBuf :
       /\ bufferSize = size
       /\ closed = FALSE
       /\ published = 0
       /\ readers = {}
       /\ closeRan = 0
       /\ closeReturned = FALSE
  /\ subscribers = ("prometheus" :> 1)
  /\ dropped = ("prometheus" :> 0)
  /\ chans = <<[buf |-> <<>>, closed |-> FALSE]>>
  /\ recvd = <<<<>>>>
  /\ closes = <<0>>
  /\ chanInfo = <<[name |-> "prometheus", pubAt |-> 0, afterClose |-> FALSE]>>
  /\ panic = "none"
  /\ pc = [t \in Threads |-> IF t = RunThread THEN "preflight" ELSE "new"]
  /\ todo = [t \in ModSet |-> {}]
  /\ seq = [t \in ModSet |-> 0]
  /\ pubCalls = [t \in ModSet |-> 0]
  /\ hb = {}
  /\ lateCalls = 0
  /\ ctxDone = FALSE
  /\ isRoot \in BOOLEAN
  /\ enabled \in [ModSet -> BOOLEAN]
  /\ initialized = <<>>
  /\ rtIdx = 0
  /\ readerOpen = [m \in ModSet |-> FALSE]
  /\ events = [e \in ExpSet |-> IF e = "prometheus" THEN 1 ELSE 0]
  /\ nread = 0
  /\ rtlog = <<>>
  /\ stopTimedOut = FALSE
  /\ objs = [m \in ModSet |-> FALSE]
  /\ links = [m \in ModSet |-> 0]
  /\ lifecycle = [m \in ModSet |-> [init |-> -1, start |-> 0, stop |-> 0]]
  /\ startRet = [m \in ModSet |-> "none"]
  /\ moduleErrors = [m \in ModSet |-> 0]
  /\ PoolIdle
  /\ CacheIdle
  /\ ExtIdle

RtNext ==
  \/ Cancel /\ UNCHANGED libVars
  \/ RunPreflight /\ UNCHANGED libVars
  \/ RunInit /\ UNCHANGED libVars
  \/ RunStart /\ UNCHANGED libVars
  \/ RunWait /\ UNCHANGED libVars
  \/ StopTimeout /\ UNCHANGED libVars
  \/ RunStopModule /\ UNCHANGED libVars
  \/ RunStopReturn /\ UNCHANGED libVars
  \/ RunClose /\ UNCHANGED libVars
  \/ RunCloseReturn /\ UNCHANGED libVars
  \/ RunStopExporter /\ UNCHANGED libVars
  \/ RunReturn /\ UNCHANGED libVars
  \/ \E m \in ModSet : ModSelect(m) /\ UNCHANGED libVars
  \/ \E m \in ModSet : ModRead(m) /\ UNCHANGED libVars
  \/ \E m \in ModSet : PublishCheck(m, "select") /\ UNCHANGED rtVars /\ UNCHANGED libVars
  \/ \E m \in ModSet : PublishRLock(m) /\ UNCHANGED rtVars /\ UNCHANGED libVars
  \/ \E m \in ModSet : PublishSend(m) /\ UNCHANGED rtVars /\ UNCHANGED libVars
  \/ \E m \in ModSet : PublishReturn(m, "select") /\ UNCHANGED rtVars /\ UNCHANGED libVars
  \/ PrometheusStart /\ UNCHANGED libVars
  \/ NATSConnect /\ UNCHANGED libVars
  \/ NATSSubscribe /\ UNCHANGED libVars
  \/ \E e \in ExpSet : ExporterReceive(e) /\ UNCHANGED libVars
  \/ \E e \in ExpSet : ExporterReturn(e) /\ UNCHANGED libVars

SpecRuntime == RtInit /\ [][RtNext]_vars

\* The steps of Run from <-ctx.Done() on: none of them waits for anything but
\* what its guard names (the cancellation, the WaitGroup)
RunShutdownStep ==
  /\ \/ RunWait
     \/ RunStopModule
     \/ RunStopReturn
     \/ RunClose
     \/ RunCloseReturn
     \/ RunStopExporter
     \/ RunReturn
  /\ UNCHANGED libVars

\* The steps of a module's Start goroutine that do not wait for the kernel:
\* the select on ctx.Done(), a Read on a closed reader, and Publish, which
\* never blocks
ModStartStep(m) ==
  /\ \/ ModSelect(m)
     \/ ~readerOpen[m] /\ ModRead(m)
     \/ PublishCheck(m, "select") /\ UNCHANGED rtVars
     \/ PublishRLock(m) /\ UNCHANGED rtVars
     \/ PublishSend(m) /\ UNCHANGED rtVars
     \/ PublishReturn(m, "select") /\ UNCHANGED rtVars
  /\ UNCHANGED libVars

\* The steps of an exporter's Start goroutine up to its loop, and the return
\* from the loop on cancellation or on a closed and drained channel
ExpStartStep(e) ==
  /\ \/ e = "prometheus" /\ PrometheusStart
     \/ e = "nats" /\ NATSConnect
     \/ e = "nats" /\ NATSSubscribe
     \/ ExporterReturn(e)
  /\ UNCHANGED libVars

\* SpecRuntime with the Go scheduler running every goroutine that can take
\* a step; the cancellation, the stop deadline and the arrival of records
\* from the kernel are left to the environment
SpecRuntimeFair ==
  /\ RtInit
  /\ [][RtNext]_vars
  /\ WF_vars(RunShutdownStep)
  /\ \A m \in ModSet : WF_vars(ModStartStep(m))
  /\ \A e \in ExpSet : WF_vars(ExpStartStep(e))

\* ------------------------------------------------- pool-level specification
\* One caller acquires events, writes their fields and releases them, as the
\* modules and TestAcquire_Release do; the bus and the runtime are not running.
BusIdle ==
  /\ NewBus(1)
  /\ panic = "none"
  /\ pc = [t \in Threads |-> "idle"]
  /\ todo = [t \in ModSet |-> {}]
  /\ seq = [t \in ModSet |-> 0]
  /\ pubCalls = [t \in ModSet |-> 0]
  /\ hb = {}
  /\ lateCalls = 0

PoolInit ==
  /\ BusIdle
  /\ RtIdle
  /\ PoolIdle
  /\ CacheIdle
  /\ ExtIdle

PoolNext ==
  \/ Acquire /\ UNCHANGED <<busVars, procVars, histVars, rtVars, cacheVars, extVars>>
  \/ \E o \in 1..MaxObj : \E f \in Scalars : \E v \in {Zero(f), NonZero(f)} :
       SetField(o, f, v) /\ UNCHANGED <<busVars, procVars, histVars, rtVars, cacheVars, extVars>>
  \/ \E o \in 1..MaxObj : \E k \in LabelKeys : \E v \in {"", "10.0.0.1"} :
       SetLabel(o, k, v) /\ UNCHANGED <<busVars, procVars, histVars, rtVars, cacheVars, extVars>>
  \/ \E o \in 1..MaxObj : \E k \in NumericKeys : \E v \in {0, 42} :
       SetNumeric(o, k, v) /\ UNCHANGED <<busVars, procVars, histVars, rtVars, cacheVars, extVars>>
  \/ \E o \in 1..MaxObj : Release(o) /\ UNCHANGED <<busVars, procVars, histVars, rtVars, cacheVars, extVars>>

SpecPool == PoolInit /\ [][PoolNext]_vars

\* ------------------------------------------------ cache-level specification
\* Modules call Lookup, the informer calls UpdatePod and DeletePod, time
\* passes; the bus and the runtime are not running.
CacheInit ==
  /\ BusIdle
  /\ RtIdle
  /\ PoolIdle
  /\ ExtIdle
  /\ \E size \in 1..MaxSize : \E t \in 1..MaxTTL : NewCache(size, t)

CacheNext ==
  \/ \E pid \in Pids : LookupCache(pid) /\ UNCHANGED <<busVars, procVars, histVars, rtVars, poolVars, extVars>>
  \/ LookupIndex /\ UNCHANGED <<busVars, procVars, histVars, rtVars, poolVars, extVars>>
  \/ LookupSet /\ UNCHANGED <<busVars, procVars, histVars, rtVars, poolVars, extVars>>
  \/ \E cid \in ContainerIDs : \E meta \in PodMetas :
       UpdatePod(cid, meta) /\ UNCHANGED <<busVars, procVars, histVars, rtVars, poolVars, extVars>>
  \/ \E cid \in ContainerIDs : DeletePod(cid) /\ UNCHANGED <<busVars, procVars, histVars, rtVars, poolVars, extVars>>
  \/ Tick /\ UNCHANGED <<busVars, procVars, histVars, rtVars, poolVars, extVars>>

SpecCache == CacheInit /\ [][CacheNext]_vars

\* --------------------------------------------- consumer-level specification
\* The broker holds MaxMsg messages; the callback, the flusher and Run
\* interleave; the store accepts or rejects each batch.
coreVars == <<busVars, procVars, histVars, rtVars, poolVars, cacheVars>>

CoreIdle ==
  /\ BusIdle
  /\ RtIdle
  /\ PoolIdle
  /\ CacheIdle

notCons == <<coreVars, natsVars, promVars, truncVars, fnVars>>
notNats == <<coreVars, consVars, promVars, truncVars, fnVars>>
notProm == <<coreVars, consVars, natsVars, truncVars, fnVars>>
notTrunc == <<coreVars, consVars, natsVars, promVars, fnVars>>
notFn == <<coreVars, consVars, natsVars, promVars, truncVars>>

ConsInit ==
  /\ CoreIdle
  /\ NatsIdle
  /\ PromIdle
  /\ TruncIdle
  /\ FnIdle
  /\ \E size \in 1..MaxBatch : \E bad \in {{}, {1}} : NewConsumer(size, bad)

ConsNext ==
  \/ ConsumerCancel /\ UNCHANGED notCons
  \/ \E ok \in BOOLEAN : ConsumerRunSetup(ok) /\ UNCHANGED notCons
  \/ \E m \in Msgs : ConsumeMsg(m) /\ UNCHANGED notCons
  \/ ConsumeAck /\ UNCHANGED notCons
  \/ \E t \in CThreads : ConsumerFlushSwap(t) /\ UNCHANGED notCons
  \/ \E t \in CThreads : \E ok \in BOOLEAN : ConsumerFlushInsert(t, ok) /\ UNCHANGED notCons
  \/ \E tick \in BOOLEAN : ConsumerFlusherSelect(tick) /\ UNCHANGED notCons
  \/ ConsumerRunDone /\ UNCHANGED notCons

SpecConsumer == ConsInit /\ [][ConsNext]_vars

\* --------------------------------------------- exporter-level specification
\* The bus puts up to MaxMsg events into the NATS exporter's channel; Start,
\* the flusher and Stop interleave.
NatsInit ==
  /\ CoreIdle
  /\ ConsIdle
  /\ PromIdle
  /\ TruncIdle
  /\ FnIdle
  /\ \E size \in 1..MaxBatch : NewNATSExporter(size)

NatsNext ==
  \/ NatsCancel /\ UNCHANGED notNats
  \/ \E ok \in BOOLEAN : NatsStartSetup(ok) /\ UNCHANGED notNats
  \/ NatsBusSend /\ UNCHANGED notNats
  \/ NatsBusClose /\ UNCHANGED notNats
  \/ \E case \in {"done", "closed", "event"} : NatsStartSelect(case) /\ UNCHANGED notNats
  \/ \E t \in NThreads : NatsFlushSwap(t) /\ UNCHANGED notNats
  \/ \E t \in NThreads : NatsFlushPublish(t) /\ UNCHANGED notNats
  \/ \E tick \in BOOLEAN : NatsFlusherSelect(tick) /\ UNCHANGED notNats
  \/ NatsStop /\ UNCHANGED notNats

SpecNats == NatsInit /\ [][NatsNext]_vars

\* ------------------------------------- Prometheus-exporter specification
\* Start, Stop, SetReady, readiness probes, bus drops and stats samples
\* interleave.
PromInit ==
  /\ CoreIdle
  /\ ConsIdle
  /\ NatsIdle
  /\ TruncIdle
  /\ FnIdle
  /\ NewPrometheus

PromNext ==
  \/ PromCancel /\ UNCHANGED notProm
  \/ PromStartServe /\ UNCHANGED notProm
  \/ PromStartReady /\ UNCHANGED notProm
  \/ PromStartReturn /\ UNCHANGED notProm
  \/ PromStop /\ UNCHANGED notProm
  \/ PromSetReady /\ UNCHANGED notProm
  \/ PromReadyz /\ UNCHANGED notProm
  \/ PromBusDrop /\ UNCHANGED notProm
  \/ \E tick \in BOOLEAN : PromCollect(tick) /\ UNCHANGED notProm

SpecProm == PromInit /\ [][PromNext]_vars

\* ------------------------------------------- TruncateDomain specification
\* Both implementations are applied once and twice to every domain name of
\* at most MaxLen characters.
TruncInit ==
  /\ CoreIdle
  /\ ConsIdle
  /\ NatsIdle
  /\ PromIdle
  /\ FnIdle
  /\ \E x \in Domains(MaxLen) : TruncNew(x)

TruncNext ==
  \/ TruncOnce /\ UNCHANGED notTrunc
  \/ TruncTwice /\ UNCHANGED notTrunc

SpecTrunc == TruncInit /\ [][TruncNext]_vars

\* ---------------------------------------------- pure-function specification
\* extractContainerID is applied to every cgroup line of Lines and
\* DropReasonString to every code of Codes (the two do not share state, so
\* one input varies while the other is fixed).
FnInit ==
  /\ CoreIdle
  /\ ConsIdle
  /\ NatsIdle
  /\ PromIdle
  /\ TruncIdle
  /\ \/ \E line \in Lines : FnNew(line, 3)
     \/ \E code \in Codes : FnNew(Chr("0::") \o Chr("/x"), code)

FnNext ==
  \/ ExtractCall /\ UNCHANGED notFn
  \/ DropReasonCall /\ UNCHANGED notFn

SpecFn == FnInit /\ [][FnNext]_vars

\* ------------------------------------------------------------ bus claims
NoPublishInProgress == \A t \in ModSet : ~InPublish(t)

\* events that went into channel ch, in order: those received, then those queued
Delivered(ch) == recvd[ch] \o chans[ch].buf

Max(a, b) == IF a > b THEN a ELSE b
Min(a, b) == IF a < b THEN a ELSE b

\* C1: Publish never waits for a subscriber.  Whatever the state of the
\* subscriber's channel, the next iteration of the fan-out loop can be taken
\* (and the return, once the loop is over); an iteration that finds an open
\* channel full leaves the channel as it is, adds one to dropped[name] and
\* goes on with the remaining subscribers.
C1_PublishNeverWaits ==
  /\ [](\A t \in ModSet :
         (panic = "none" /\ pc[t] = "loop") =>
            IF todo[t] # {} THEN ENABLED PublishSend(t)
                            ELSE ENABLED PublishReturn(t, "pub"))
  /\ [][\A t \in ModSet : \A name \in ExpSet :
          ( /\ pc[t] = "loop"
            /\ name \in todo[t]
            /\ name \notin todo'[t]
            /\ ~chans[subscribers[name]].closed
            /\ Len(chans[subscribers[name]].buf) = bufferSize )
          => ( /\ chans' = chans
               /\ dropped'[name] = dropped[name] + 1
               /\ todo'[t] = todo[t] \ {name}
               /\ pc'[t] = "loop"
               /\ panic' = "none" )]_vars

\* C1 witness: a Publish call that dropped its event for one full subscriber
\* and delivered it to another
C1_Witness ==
  \E t \in ModSet : \E a, b \in DOMAIN subscribers :
    /\ a # b
    /\ pc[t] = "loop" /\ todo[t] = {}
    /\ dropped[a] > 0
    /\ Len(chans[subscribers[a]].buf) = bufferSize
    /\ Cur(t) \notin Range(Delivered(subscribers[a]))
    /\ Cur(t) \in Range(Delivered(subscribers[b]))

\* C2: one subscriber with buffer B, registered before the first Publish, N
\* Publish calls and nothing received: published = N, dropped = max(0, N - B),
\* queue depth = min(N, B).  On an open bus published equals the number of
\* Publish calls made, whatever the subscribers accepted.
C2_DropOnOverflow ==
  (~closed /\ NoPublishInProgress) =>
     /\ published = Calls
     /\ (Len(chans) = 1 /\ chanInfo[1].pubAt = 0 /\ recvd[1] = <<>>) =>
           LET name == chanInfo[1].name IN
           /\ dropped[name] = Max(0, Calls - bufferSize)
           /\ QueueDepth(name) = Min(Calls, bufferSize)

\* C2 witness: one subscriber, more Publish calls than its buffer holds
C2_Witness ==
  /\ ~closed /\ NoPublishInProgress
  /\ Len(chans) = 1 /\ chanInfo[1].pubAt = 0 /\ recvd[1] = <<>>
  /\ Calls > bufferSize
  /\ dropped[chanInfo[1].name] > 0

C4_Original ==
  LET names == DOMAIN subscribers
      del == [n \in names |-> Len(Delivered(subscribers[n]))]
  IN published >= SumOver(del, names) + SumOver(dropped, names)

\* C4 amended: for each registered subscriber, published >= delivered to it +
\* dropped for it, with equality whenever no Publish call is in progress and
\* the subscriber was registered before the first Publish call.
C4_PerSubscriber ==
  \A n \in DOMAIN subscribers :
    LET ch == subscribers[n] IN
    /\ published >= Len(Delivered(ch)) + dropped[n]
    /\ (NoPublishInProgress /\ chanInfo[ch].pubAt = 0) =>
          published = Len(Delivered(ch)) + dropped[n]

\* C4 witness: two subscribers, each with deliveries and drops accounted
C4_Witness ==
  /\ NoPublishInProgress
  /\ Cardinality(DOMAIN subscribers) = 2
  /\ \A n \in DOMAIN subscribers : chanInfo[subscribers[n]].pubAt = 0
  /\ \E n \in DOMAIN subscribers : dropped[n] > 0
  /\ published = MaxPub

\* C5: a Subscribe with a registered name fails: it neither replaces the
\* channel registered under the name nor resets its drop counter.
C5_DuplicateSubscribeFails ==
  [][\A n \in DOMAIN subscribers :
        subscribers'[n] = subscribers[n] /\ dropped'[n] >= dropped[n]]_vars

\* C6: Close is idempotent.  However many Close calls, no channel is closed
\* twice, the locked section runs at most once, and once it ran every channel
\* that was registered when it ran is closed exactly once.
C6_CloseIdempotent ==
  /\ panic # "close of closed channel"
  /\ closeRan <= 1
  /\ \A ch \in 1..Len(chans) :
       /\ closes[ch] <= 1
       /\ chans[ch].closed <=> closes[ch] = 1
  /\ closeRan = 1 =>
       \A n \in DOMAIN subscribers :
         ~chanInfo[subscribers[n]].afterClose => closes[subscribers[n]] = 1

\* C6 witness: two Close calls have returned and a channel was closed
C6_Witness ==
  /\ \A t \in Closers : pc[t] = "done"
  /\ \E ch \in 1..Len(chans) : closes[ch] = 1

\* C7: a Publish call that begins after a Close call has returned is a
\* no-op: published, the dropped counters and the channels stay as they are
\* and the call returns without entering the fan-out.
C7_PublishAfterCloseNoop ==
  [][\A t \in ModSet :
        (closeReturned /\ seq'[t] # seq[t]) =>
           /\ published' = published
           /\ dropped' = dropped
           /\ chans' = chans
           /\ ~InPublish(t)']_vars

\* C7 witness: a Publish call was made after Close returned, on a bus with a
\* subscriber
C7_Witness == lateCalls > 0 /\ Len(chans) > 0

\* C8: once the bus has been closed, every channel Subscribe returned is
\* closed, whatever the order of the Subscribe and Close calls and the names.
C8_EveryChannelClosed ==
  closeRan >= 1 => \A ch \in 1..Len(chans) : chans[ch].closed

\* -------------------------------------------------------- runtime claims
\* C9: once m.Stop has returned, no further event of m's type is published
\* to the bus (no Publish call of m passes the closed check and is counted).
C9_NoPublishAfterStop ==
  [][\A m \in ModSet :
        <<"StopRet", m>> \in Range(rtlog) => pubCalls'[m] = pubCalls[m]]_vars

RECURSIVE StopLog(_)
StopLog(mods) ==
  IF mods = <<>> THEN <<>>
  ELSE <<<<"Stop", Head(mods)>>, <<"StopRet", Head(mods)>>>> \o StopLog(Tail(mods))

\* the calls of a complete shutdown, in the order the claim gives
ShutdownLog ==
  StopLog(initialized)
  \o <<<<"Close", "bus">>, <<"CloseRet", "bus">>>>
  \o [i \in 1..Len(Exps) |-> <<"ExpStop", Exps[i]>>]
  \o <<<<"Return", "run">>>>

IsPrefix(a, b) == Len(a) <= Len(b) /\ \A i \in 1..Len(a) : a[i] = b[i]

ModIndex(m) == CHOOSE i \in 1..Len(Mods) : Mods[i] = m

\* C10: shutdown order.  Run stops nothing before cancellation; it calls Stop
\* on the initialized modules one at a time in registration order, Close once
\* and only after the last Stop returned, the exporters' Stop only after
\* Close returned, and returns only when every Start task has returned.
C10_ShutdownOrder ==
  /\ IsPrefix(rtlog, ShutdownLog)
  /\ rtlog # <<>> => ctxDone
  /\ \A i, j \in 1..Len(initialized) :
       i < j => ModIndex(initialized[i]) < ModIndex(initialized[j])
  /\ closed => \A m \in Range(initialized) : <<"StopRet", m>> \in Range(rtlog)
  /\ closeRan <= 1
  /\ pc[RunThread] = "done" =>
       /\ rtlog = ShutdownLog
       /\ closeRan = 1
       /\ \A t \in ExpSet \cup Range(initialized) : pc[t] = "returned"

\* C10 witness: Run returned after shutting down two modules
C10_Witness ==
  /\ pc[RunThread] = "done"
  /\ Len(initialized) = 2
  /\ published > 0

\* C11: stopping an exporter drains its channel.  Once the bus has been closed
\* and an exporter's Start has returned, no event is left in the channel the
\* exporter got from Subscribe: it processed every event that was queued.
C11_ExporterDrains ==
  \A e \in ExpSet :
    (pc[e] = "returned" /\ events[e] # 0 /\ closeRan >= 1) =>
       chans[events[e]].buf = <<>>

\* C12: the shutdown deadline is enforced.  Once the deadline of stopCtx has
\* passed and Run has stopped the modules, closed the bus and stopped the
\* exporters, Run can return, whether or not every Start task has returned.
C12_DeadlineEnforced ==
  []((panic = "none" /\ stopTimedOut /\ pc[RunThread] = "stop_exp" /\ rtIdx > Len(Exps))
       => ENABLED RunReturn)

\* the init loop of Run is over
InitLoopOver == pc[RunThread] \notin {"preflight", "init"} \/ rtIdx > Len(Mods)

\* a Start task (module or exporter) has been spawned
SomeTaskStarted ==
  \/ \E t \in ModSet \cup ExpSet : pc[t] \notin {"new", "ready"}
  \/ \E m \in ModSet : lifecycle[m].start > 0

\* C13: a module whose Init fails is skipped and the others are still
\* initialised: initialized holds exactly the modules whose Init succeeded,
\* and once the loop is over Init was called on every enabled module.  Run
\* fails only with no module initialised and nothing started; it goes on to
\* start the tasks only with at least one module initialised.
C13_InitFailureSkipped ==
  /\ \A m \in ModSet : lifecycle[m].init = 0 <=> m \in Range(initialized)
  /\ (isRoot /\ InitLoopOver) => \A m \in ModSet : enabled[m] => lifecycle[m].init >= 0
  /\ pc[RunThread] = "failed" => (initialized = <<>> /\ ~SomeTaskStarted)
  /\ pc[RunThread] \notin {"preflight", "init", "failed"} => initialized # <<>>
  /\ SomeTaskStarted => initialized # <<>>

\* C13 witness: Init of the first module failed, the second was initialised
\* and Run went through to its return
C13_Witness ==
  /\ lifecycle[Mods[1]].init > 0
  /\ initialized = <<Mods[2]>>
  /\ pc[RunThread] = "done"

\* Run is past its stop loop
StopLoopOver == pc[RunThread] \in {"close", "close_lock", "stop_exp", "done"}

C15_ReaderClosedReturnsNil ==
  [][\A m \in ModSet :
       /\ (pc[m] = "read" /\ ~readerOpen[m] /\ pc'[m] # "read") =>
             /\ pc'[m] = "returned"
             /\ startRet'[m] = "nil"
             /\ published' = published
             /\ chans' = chans
       /\ pc[m] = "returned" =>
             (pc'[m] = "returned" /\ pubCalls'[m] = pubCalls[m])]_vars

\* C15 witness: a module that had published returned nil from Start after its
\* reader was closed
C15_Witness ==
  \E m \in ModSet :
    pc[m] = "returned" /\ startRet[m] = "nil" /\ ~readerOpen[m] /\ pubCalls[m] > 0

\* C16: a record that fails to decode adds one to module_errors_total of the
\* module, publishes nothing and Start goes on to the next read.
C16_DecodeFailureCounted ==
  [][\A m \in ModSet :
       (pc[m] = "read" /\ nread' = nread + 1 /\ pc'[m] = "select") =>
          /\ moduleErrors'[m] = moduleErrors[m] + 1
          /\ published' = published
          /\ startRet'[m] = "none"]_vars

\* C17: a module whose Init failed, at whatever step, holds no kernel
\* resource: no loaded objects, no attached link, no ring-buffer reader.
C17_FailedInitReleases ==
  \A m \in ModSet :
    lifecycle[m].init > 0 => (~objs[m] /\ links[m] = 0 /\ ~readerOpen[m])

\* C17 witness: Init failed at its last step, ringbuf.NewReader, after the
\* objects were loaded and every link attached
C17_Witness ==
  \E m \in ModSet : lifecycle[m].init = NLinks[m] + 2

\* ------------------------------------------------------------ pool claims
\* C18: every event a subscriber received is released to the pool exactly
\* once by the time the exporters are done with it (Run has returned).
C18_ReleasedOnce ==
  pc[RunThread] = "done" =>
    \A ch \in 1..Len(chans) : \A i \in 1..Len(recvd[ch]) :
      recvd[ch][i] \in DOMAIN released /\ released[recvd[ch][i]] = 1

\* C19: every event Acquire returns has type unknown, zero timestamp, pid
\* and uid, empty strings and empty label and numeric maps, whatever was
\* acquired, written and released before.
C19_AcquireClean ==
  [][\A o \in 1..MaxObj :
       (o \in held' /\ o \notin held) =>
          LET e == evs'[o] IN
          /\ e.Type = "unknown"
          /\ e.Timestamp = 0 /\ e.PID = 0 /\ e.UID = 0
          /\ e.Comm = "" /\ e.Node = "" /\ e.Namespace = "" /\ e.Pod = ""
          /\ DOMAIN e.Labels = {}
          /\ DOMAIN e.Numeric = {}]_vars

\* C19 witness: an object that carried data when it was released has been
\* acquired again
C19_Witness == \E o \in held : o \in relDirty

\* ----------------------------------------------------------- cache claims
\* C20 as stated: a Lookup returns found exactly when the container index
\* holds the id the resolver derives for the pid.
C20_Original ==
  lkResult.pid # 0 => (lkResult.found <=> lkResult.inIndex)

\* C20 amended: a Lookup returns found exactly when the PID tier holds an
\* entry for the pid that has not expired, or the container index, when the
\* Lookup reads it, holds the id the resolver derives for the pid.
C20_FoundIff ==
  lkResult.pid # 0 => (lkResult.found <=> (lkResult.hit \/ lkResult.inIndex))

\* C20 witness: after Lookup, UpdatePod and DeletePod calls, a Lookup found a
\* pid whose container id is no longer in the index
C20_Witness ==
  lkResult.pid # 0 /\ lkResult.found /\ lkResult.hit /\ ~lkResult.inIndex

\* C21: a Lookup that finds a PID-tier entry with expires <= now does not
\* return it: it is not a hit, it is found exactly when the container index
\* holds the resolver's id, with the metadata the index held when it was
\* read; and the Lookup that stores an entry stores the metadata it returns
\* with expires = now + ttl.
C21_ExpiredReResolves ==
  /\ [](( lkResult.pid # 0 /\ lkResult.cached = "expired" ) =>
          /\ ~lkResult.hit
          /\ lkResult.found <=> lkResult.inIndex
          /\ lkResult.found => lkResult.meta = lkResult.idxMeta)
  /\ [][(lk.pc = "set" /\ lk'.pc = "idle") =>
          /\ lk.pid \in DOMAIN entries'
          /\ entries'[lk.pid] = [meta |-> lk.idxMeta, expires |-> now + ttl]
          /\ lkResult'.found /\ lkResult'.meta = lk.idxMeta]_vars

\* C21 witness: a Lookup found an expired entry, re-resolved, returned the
\* other metadata the index now holds and stored it with a fresh expiry
C21_Witness ==
  /\ lkResult.pid # 0 /\ lkResult.cached = "expired" /\ lkResult.found
  /\ lkResult.pid \in DOMAIN entries
  /\ entries[lkResult.pid] = [meta |-> lkResult.meta, expires |-> now + ttl]
  /\ now > 0

\* C22: a Lookup that misses the PID tier and gets no container id from the
\* resolver, or an id the container index does not hold, returns not found
\* with empty metadata and leaves the PID tier and the container index as
\* they are; no entry is ever stored for a pid without a container id.
C22_MissNotCached ==
  /\ [](( lkResult.pid # 0 /\ lkResult.cached # "fresh"
           /\ (Resolve(lkResult.pid) = "" \/ ~lkResult.inIndex) ) =>
          (~lkResult.found /\ lkResult.meta = ""))
  /\ [](\A pid \in DOMAIN entries : Resolve(pid) # "" /\ entries[pid].meta \in PodMetas)
  /\ [][(lkResult' # lkResult /\ ~lkResult'.found) =>
          (entries' = entries /\ containerIndex' = containerIndex)]_vars

\* C22 witness: a Lookup returned not found for a pid whose container id is
\* not in the index, while both tiers hold other data
C22_Witness ==
  /\ lkResult.pid # 0 /\ ~lkResult.found
  /\ Resolve(lkResult.pid) # ""
  /\ DOMAIN entries # {}
  /\ DOMAIN containerIndex # {}

\* C23: an insert that finds the PID tier at maxSize first removes every
\* entry a Lookup would treat as expired (expires <= now), and removes an
\* unexpired entry only if the tier is still at maxSize without the expired
\* ones.
C23_EvictExpiredFirst ==
  [][(lk.pc = "set" /\ lk'.pc = "idle" /\ Cardinality(DOMAIN entries) >= maxSize) =>
       LET expired == {p \in DOMAIN entries : entries[p].expires <= now}
           fresh == DOMAIN entries \ expired
       IN /\ \A p \in expired \ {lk.pid} : p \notin DOMAIN entries'
          /\ Cardinality(fresh) < maxSize => fresh \subseteq DOMAIN entries']_vars

\* rows the consumer still holds: the pending batch and the swapped batches
CHeld == Range(cBatch) \cup UNION {Range(cLocal[t]) : t \in CThreads}

CAcked == {m \in Msgs : cMsgs[m] = "acked"}

\* C24: the consumer delivers at least once: once Run has returned and the
\* callback and the flusher are at rest, every acknowledged message has its
\* row in the store.
C24_AckedStored ==
  (cpc["run"] = "returned" /\ cpc["callback"] \in {"idle", "off"}
     /\ cpc["flusher"] \in {"done", "off"})
    => CAcked \subseteq cStore

\* C25: the pending batch never holds more than BatchSize rows; while it
\* holds BatchSize rows the callback that filled it is on its way to flush
\* and appends nothing before; every tick the flusher takes calls flush; and
\* InsertBatch is never called without rows.
C25_BatchBounded ==
  /\ [](Len(cBatch) <= cBatchSize)
  /\ [](Len(cBatch) >= cBatchSize => cpc["callback"] \in {"ack", "swap"})
  /\ [](~cInsertedEmpty)
  /\ [][(cpc["flusher"] = "select" /\ cpc'["flusher"] # "select" /\ ~cCtxDone)
          => cpc'["flusher"] = "swap"]_vars
  /\ [][(cpc["callback"] = "ack" /\ cCur.full) => cpc'["callback"] \in {"ack", "swap"}]_vars

\* C25 witness: the batch was filled to BatchSize > 1 by the callback, which
\* is about to flush it, after an earlier batch reached the store
C25_Witness ==
  /\ cBatchSize > 1
  /\ Len(cBatch) = cBatchSize
  /\ cpc["callback"] = "swap"
  /\ cStore # {}

\* some message can be taken by the callback
ConsumeAny == \E m \in Msgs : ConsumeMsg(m)

\* C26: a failed insert drops its batch: the step changes neither the pending
\* batch nor the store, the rows are never held again nor stored, and the
\* callback still takes messages while Run has not returned.
C26_FailedBatchDropped ==
  /\ [][cFailed' # cFailed => (cBatch' = cBatch /\ cStore' = cStore)]_vars
  /\ [](cFailed \cap (cStore \cup CHeld) = {})
  /\ []((cFailed # {} /\ cpc["callback"] = "idle" /\ cpc["run"] # "returned"
          /\ (\E m \in Msgs : cMsgs[m] # "acked")) => ENABLED ConsumeAny)

\* C26 witness: one batch failed, a row appended after its swap is pending
\* and a later batch reached the store
C26_Witness ==
  /\ cFailed # {}
  /\ cStore # {}
  /\ cBatch # <<>>
  /\ \E f \in cFailed : \E m \in cStore : m > f

\* number of times event x is in the wire batch, in a swapped batch or
\* already handed to nc.Publish
NCopies(x) ==
  Occurrences(nBatch, x) + Occurrences(nPublished, x)
    + Occurrences(nLocal["start"], x) + Occurrences(nLocal["flusher"], x)
    + Occurrences(nLocal["stop"], x)

\* C27: every event Start received is, exactly once, in the wire batch, in
\* a batch a flush is publishing, or handed to nc.Publish; a batch that
\* reached BatchSize is flushed by Start before it receives again; the wire
\* batch is empty once Start has returned; and when Start has returned and
\* no flush is in progress every received event has been handed to
\* nc.Publish exactly once.
C27_PublishedOnce ==
  /\ \A x \in nRecv : NCopies(x) = 1
  /\ \A x \in Msgs \ nRecv : NCopies(x) = 0
  /\ Len(nBatch) <= nBatchSize
  /\ Len(nBatch) >= nBatchSize => npc["start"] = "swap"
  /\ npc["start"] = "returned" => nBatch = <<>>
  /\ (npc["start"] = "returned" /\ \A t \in NThreads : nLocal[t] = <<>>)
       => \A x \in nRecv : Occurrences(nPublished, x) = 1

\* C27 witness: Start received every event and returned on the cancelled
\* context; each event was handed to nc.Publish once, the last of them by a
\* batch that had not reached BatchSize
C27_Witness ==
  /\ nStartRet = "ctx"
  /\ npc["start"] = "returned"
  /\ nBatchSize = 2
  /\ nRecv = Msgs
  /\ Len(nPublished) = MaxMsg

\* C28: after every sample events_dropped_total{subscriber} equals the
\* dropped count the sample read from the bus for that subscriber.
C28_CounterEqualsDropped == pSnap >= 0 => pCounter = pSnap

\* C29: /readyz answers 200 only when Start has reached its consumption
\* loop and Stop has not been called.
C29_ReadyOnlyWhileConsuming == pProbe.code = 200 => (pProbe.reached /\ ~pProbe.stopped)

\* number of dot-separated labels of a domain name
NumLabels(x) == Len(Split(x))

RegisteredDomain(q) ==
  IF q = <<>> THEN Unknown
  ELSE IF NumLabels(q) <= 2 THEN q
  ELSE Split(q)[NumLabels(q) - 1] \o <<".">> \o Split(q)[NumLabels(q)]

\* C31: the DNS event the module publishes carries the question name in
\* labels.qname and its registered domain in labels.domain.
C31_DomainLabel ==
  DOMAIN tLabels # {} =>
    (tLabels.qname = tIn /\ tLabels.domain = RegisteredDomain(tLabels.qname))

\* the cgroup path of a line: its third colon-separated field
CgroupPath(line) == SplitOn(line, ":")[3]

\* C32: a line of fewer than three colon-separated fields yields no id; any
\* other yields the id of the first of crio-<id>, containerd://<id> and
\* bare <id> found in its cgroup path, or none; and a path made of one
\* container in each of the three formats yields that container's id.
C32_ExtractInOrder ==
  gId # NotCalled =>
    /\ Len(SplitOn(gLine, ":")) < 3 => gId = <<>>
    /\ Len(SplitOn(gLine, ":")) >= 3 =>
         gId = FirstMatch(CgroupPath(gLine),
                          <<Chr("crio-"), Chr("containerd://"), Chr("")>>)
    /\ \A id \in Ids : \A prefix \in {Chr(""), Chr("crio-"), Chr("containerd://")} :
         gLine = Chr("0::") \o Chr("/x") \o Chr("/") \o prefix \o id => gId = id

\* the number a sequence of digits denotes
RECURSIVE Value(_)
Value(ds) ==
  IF Len(ds) = 0 THEN 0
  ELSE 10 * Value(SubSeq(ds, 1, Len(ds) - 1))
         + (CHOOSE d \in 0..9 : Digit(d) = ds[Len(ds)])

\* C33: the reason label of a code in the drop-reason table is the table's
\* name (NO_SOCKET for 3); of any other code n it is REASON_ followed by the
\* decimal digits of n; it is never empty.
C33_DropReasonLabel ==
  dReason # NotCalled =>
    /\ dReason # <<>>
    /\ dCode = 3 => dReason = <<"NO_SOCKET">>
    /\ dCode \in DOMAIN DropReasons => dReason = <<DropReasons[dCode]>>
    /\ dCode \notin DOMAIN DropReasons =>
         /\ Head(dReason) = "REASON_"
         /\ Len(dReason) > 1
         /\ \A i \in 2..Len(dReason) : \E d \in 0..9 : Digit(d) = dReason[i]
         /\ dReason[2] = "0" => Len(dReason) = 2
         /\ Value(Tail(dReason)) = dCode

\* C33 witness: code 99, which the table does not hold, was named REASON_99
C33_Witness ==
  /\ dCode = 99
  /\ dReason = <<"REASON_", "9", "9">>

\* C34: no Publish sends on a subscriber channel that Close has closed: the
\* process never panics with a send on a closed channel.
C34_NoSendOnClosed == panic # "send on closed channel"

\* C35: for the subscriber registered under each name, the queue depth never
\* exceeds the buffer size, and if it was registered before the first
\* Publish then, whenever no Publish call is in progress, the events received
\* from its channel, its queue depth and its drop counter add up to
\* published.
C35_Conservation ==
  \A n \in DOMAIN subscribers :
    /\ QueueDepth(n) <= bufferSize
    /\ (NoPublishInProgress /\ chanInfo[subscribers[n]].pubAt = 0) =>
          Len(recvd[subscribers[n]]) + QueueDepth(n) + dropped[n] = published

\* C35 witness: after MaxPub Publish calls a subscriber has received an
\* event, has one queued and the buffer is full
C35_Witness ==
  /\ NoPublishInProgress
  /\ published = MaxPub
  /\ \E n \in DOMAIN subscribers :
       /\ chanInfo[subscribers[n]].pubAt = 0
       /\ Len(recvd[subscribers[n]]) > 0
       /\ QueueDepth(n) = bufferSize

\* C36: the PID tier never holds more than maxSize entries.
C36_SizeBounded == Cardinality(DOMAIN entries) <= maxSize

\* C37: the entry a Lookup stores carries the metadata the container index
\* holds for its container id at the moment of the store: not metadata that
\* a DeletePod or UpdatePod call, already returned, removed or replaced.
C37_NoStaleStore ==
  [][(lk.pc = "set" /\ lk'.pc = "idle") =>
       /\ lk.cid \in DOMAIN containerIndex
       /\ entries'[lk.pid].meta = containerIndex[lk.cid]]_vars

\* number of times row m is in the pending batch or in a swapped batch
CHolds(m) ==
  Occurrences(cBatch, m) + Occurrences(cLocal["callback"], m)
    + Occurrences(cLocal["flusher"], m) + Occurrences(cLocal["run"], m)

\* C38: every row appended to the pending batch is, exactly once, in the
\* pending batch, in a swapped batch or passed to an InsertBatch call, so
\* that no row is passed to two calls and a row no goroutine holds has been
\* passed to one; a row never appended is passed to none.
C38_InsertedOnce ==
  /\ \A m \in cAppended : CHolds(m) + cInsertCalls[m] = 1
  /\ \A m \in Msgs \ cAppended : CHolds(m) + cInsertCalls[m] = 0
  /\ \A m \in cStore \cup cFailed : cInsertCalls[m] = 1

\* C38 witness: the callback and the flusher are both between swap and
\* insert, each with its own rows, after an earlier row was inserted
C38_Witness ==
  /\ cpc["callback"] = "insert"
  /\ cpc["flusher"] = "insert"
  /\ cLocal["callback"] # <<>>
  /\ cLocal["flusher"] # <<>>
  /\ \E m \in Msgs : cInsertCalls[m] = 1

\* C39: when Run has returned after cancellation, every acknowledged
\* message has its row in the store.
C39_FinalFlushStores ==
  (cpc["run"] = "returned" /\ cCtxDone) => CAcked \subseteq cStore

\* Run has returned nil after Stop was called on every initialised module
\* and on every exporter
RunReturnedNil ==
  /\ pc[RunThread] = "done"
  /\ \A m \in Range(initialized) : lifecycle[m].stop >= 1
  /\ \A e \in ExpSet : \E i \in 1..Len(rtlog) : rtlog[i] = <<"ExpStop", e>>

\* C40: once Run waits for the shutdown signal and the context is cancelled,
\* Run eventually returns nil, having stopped every initialised module and
\* every exporter.
C40_RunReturns ==
  (pc[RunThread] = "wait" /\ ctxDone) ~> RunReturnedNil

====
